---- MODULE Spec2Model ----
(***************************************************************************)
(* Model of the notebooks chi_squared, anova and t_tests of the            *)
(* repository.  A notebook run is a state machine: a fresh kernel          *)
(* with an empty namespace executes the code cells top to bottom; every    *)
(* code cell is one action that reads names of the namespace, calls        *)
(* library functions and rebinds names.  Library functions (scipy, pandas, *)
(* numpy) are operators that compute what the library computes, in exact   *)
(* rational arithmetic extended with inf and nan.                          *)
(***************************************************************************)
EXTENDS Integers, Sequences, FiniteSets, TLC

VARIABLES nb,      \* the notebook the kernel runs
          pc,      \* id of the next code cell to execute
          status,  \* "ok", or the exception that stopped the run
          ns,      \* kernel namespace: name -> [val, cell that bound it]
          calls    \* log of the statistical library calls made so far

vars == <<nb, pc, status, ns, calls>>

(***************************************************************************)
(* Bounds of the model.                                                    *)
(***************************************************************************)
MaxRows == 4      \* rows of a bounded heart.csv
NumPain == 3      \* distinct ChestPainType values in a bounded heart.csv
MaxObsA == 5      \* rows of a bounded wine frame
MaxObsT == 4      \* rows of a bounded diabetes / breast-cancer frame
MaxVal == 1       \* measured values range over 0..MaxVal

(***************************************************************************)
(* Floating-point values: exact rationals n/d (d > 0, lowest terms), plus  *)
(* inf (n is the sign) and nan.                                            *)
(***************************************************************************)
Abs(i) == IF i < 0 THEN -i ELSE i

Sgn(i) == IF i > 0 THEN 1 ELSE IF i < 0 THEN -1 ELSE 0

RECURSIVE GCD(_, _)
GCD(a, b) == IF b = 0 THEN a ELSE GCD(b, a % b)

R(n, d) ==
    LET g == GCD(Abs(n), Abs(d))
    IN  [k |-> "fin", n |-> (Sgn(d) * n) \div g, d |-> Abs(d) \div g]

I(n) == [k |-> "fin", n |-> n, d |-> 1]

NaN == [k |-> "nan", n |-> 0, d |-> 1]

Inf(s) == [k |-> "inf", n |-> s, d |-> 1]

IsFin(a) == a.k = "fin"

FNeg(a) == [a EXCEPT !.n = -a.n]

FAdd(a, b) ==
    IF IsFin(a) /\ IsFin(b)
    THEN LET g == GCD(a.d, b.d)
         IN  R(a.n * (b.d \div g) + b.n * (a.d \div g), (a.d \div g) * b.d)
    ELSE IF a.k = "nan" \/ b.k = "nan" THEN NaN
    ELSE IF IsFin(a) THEN b
    ELSE IF IsFin(b) THEN a
    ELSE IF a.n = b.n THEN a ELSE NaN

FSub(a, b) == FAdd(a, FNeg(b))

FMul(a, b) ==
    IF IsFin(a) /\ IsFin(b)
    THEN LET g == GCD(Abs(a.n), b.d)
             h == GCD(Abs(b.n), a.d)
         IN  R((a.n \div g) * (b.n \div h), (a.d \div h) * (b.d \div g))
    ELSE IF a.k = "nan" \/ b.k = "nan" THEN NaN
    ELSE IF Sgn(a.n) * Sgn(b.n) = 0 THEN NaN
    ELSE Inf(Sgn(a.n) * Sgn(b.n))

FDiv(a, b) ==
    IF IsFin(a) /\ IsFin(b)
    THEN IF b.n # 0
         THEN LET g == GCD(Abs(a.n), Abs(b.n))
                  h == GCD(a.d, b.d)
              IN  R((a.n \div g) * (b.d \div h), (a.d \div h) * (b.n \div g))
         ELSE IF a.n = 0 THEN NaN ELSE Inf(Sgn(a.n))
    ELSE IF a.k = "nan" \/ b.k = "nan" THEN NaN
    ELSE IF IsFin(a) THEN I(0)
    ELSE IF IsFin(b) THEN Inf(IF b.n < 0 THEN -a.n ELSE a.n)
    ELSE NaN

FAbs(a) == [a EXCEPT !.n = Abs(a.n)]

FSign(a) == IF a.k = "nan" THEN NaN ELSE I(Sgn(a.n))

\* a < b; any comparison with nan is false
FLt(a, b) ==
    IF a.k = "nan" \/ b.k = "nan" THEN FALSE
    ELSE IF IsFin(a) /\ IsFin(b) THEN a.n * b.d < b.n * a.d
    ELSE IF IsFin(a) THEN b.n > 0
    ELSE IF IsFin(b) THEN a.n < 0
    ELSE a.n < b.n

FMin(a, b) == IF a.k = "nan" \/ b.k = "nan" THEN NaN ELSE IF FLt(b, a) THEN b ELSE a

\* s[1] + ... + s[k], added left to right
RECURSIVE FSumTo(_, _)
FSumTo(s, k) == IF k = 0 THEN I(0) ELSE FAdd(FSumTo(s, k - 1), s[k])

FSum(s) == FSumTo(s, Len(s))

RECURSIVE ISumTo(_, _)
ISumTo(s, k) == IF k = 0 THEN 0 ELSE ISumTo(s, k - 1) + s[k]

ISum(s) == ISumTo(s, Len(s))

RECURSIVE Flatten(_)
Flatten(m) == IF m = <<>> THEN <<>> ELSE Head(m) \o Flatten(Tail(m))

\* the subsequence of s whose elements satisfy Keep, order preserved
RECURSIVE Select(_, _)
Select(s, keep) ==
    IF s = <<>> THEN <<>>
    ELSE (IF Head(s) \in keep THEN <<Head(s)>> ELSE <<>>) \o Select(Tail(s), keep)

(***************************************************************************)
(* The kernel: namespace, cell order, exceptions.                          *)
(***************************************************************************)
ChiCells == <<0, 3, 5, 8, 10, 13, 15, 20, 22, 24, 25, 29, 31, 33, 35, 38, 41,
              45, 47, 48, 50, 51, 53, 58, 60, 61, 62>>

RECURSIVE SuccIn(_, _)
SuccIn(cells, c) ==
    IF Len(cells) = 1 THEN c + 1
    ELSE IF Head(cells) = c THEN cells[2] ELSE SuccIn(Tail(cells), c)

AnovaCells == <<0, 3, 5, 7, 9, 12, 17, 20, 25, 28>>

TTestCells == <<0, 3, 5, 7, 10, 14, 19, 23, 26, 31, 33, 35, 38, 41, 44, 48, 52,
                55, 59, 61, 63>>

QQCells == <<0, 1, 3, 5, 7, 9, 11, 12, 14, 15, 16>>

CellsOf(n) ==
    IF n = "chi_squared" THEN ChiCells
    ELSE IF n = "anova" THEN AnovaCells
    ELSE IF n = "qq_plots" THEN QQCells
    ELSE TTestCells

At(n, c) == nb = n /\ pc = c /\ status = "ok"

Bound(names) == names \subseteq DOMAIN ns

V(name) == ns[name].val

\* the namespace after the cell at pc binds the names of rec to its values
BindAll(rec) ==
    [x \in DOMAIN ns \cup DOMAIN rec |->
        IF x \in DOMAIN rec THEN [val |-> rec[x], cell |-> pc] ELSE ns[x]]

Raise(e) == status' = e /\ UNCHANGED <<nb, pc, ns, calls>>

\* the cell at pc completes: binds rec, logs the library calls cs
Finish(rec, cs) ==
    /\ ns' = BindAll(rec)
    /\ calls' = calls \o cs
    /\ pc' = SuccIn(CellsOf(nb), pc)
    /\ UNCHANGED <<nb, status>>

\* a cell that reads names reads, does cs and binds rec
Cell(n, c, reads, rec, cs) ==
    /\ At(n, c)
    /\ IF Bound(reads) THEN Finish(rec, cs) ELSE Raise("NameError")

Module == "module"

(***************************************************************************)
(* pandas: a data frame is a bag of rows (row -> multiplicity) with the    *)
(* set of columns it shows.                                                *)
(***************************************************************************)
SexValues == <<"F", "M">>

PainValues == SubSeq(<<"ASY", "ATA", "NAP", "TA">>, 1, NumPain)

DiseaseValues == <<0, 1>>

Range(s) == {s[i] : i \in DOMAIN s}

\* The rows a bounded heart.csv is drawn from.  No cell reads the chest pain
\* type of a row without heart disease (cell 47 filters them out before the
\* only cross-tabulation by ChestPainType), so those rows carry the first type.
HeartRows ==
    {r \in [Sex : Range(SexValues), ChestPainType : Range(PainValues),
            HeartDisease : Range(DiseaseValues)] :
        r.HeartDisease = 1 \/ r.ChestPainType = PainValues[1]}

HeartColumns == {"Sex", "ChestPainType", "HeartDisease"}

BagOf(s, rows) == [r \in rows |-> Cardinality({i \in DOMAIN s : s[i] = r})]

\* a heart.csv with the sex counts the notebook reports (725 M, 193 F)
ReportedSexCounts ==
    [r \in HeartRows |->
        IF r.ChestPainType = "ASY" /\ r.HeartDisease = 1
        THEN (IF r.Sex = "M" THEN 725 ELSE 193) ELSE 0]

HeartFrames ==
    {[cols |-> HeartColumns, rows |-> b] :
        b \in {BagOf(s, HeartRows) :
                 s \in UNION {[1..n -> HeartRows] : n \in 0..MaxRows}}
              \cup {ReportedSexCounts}}

\* frame[[c1, c2, ...]]
Project(frame, cols) == [cols |-> cols, rows |-> frame.rows]

\* frame[frame[col] == v]
Filter(frame, col, v) ==
    [cols |-> frame.cols,
     rows |-> [r \in DOMAIN frame.rows |->
                  IF r[col] = v THEN frame.rows[r] ELSE 0]]

\* the rows of frame, each once, in a fixed order
RowsOf(frame) ==
    LET S == DOMAIN frame.rows
        RECURSIVE Enum(_)
        Enum(T) == IF T = {} THEN <<>>
                   ELSE LET r == CHOOSE r \in T : TRUE
                        IN  <<r>> \o Enum(T \ {r})
    IN  Enum(S)

HeartRowSeq == RowsOf([rows |-> [r \in HeartRows |-> 0]])

\* number of rows of frame that satisfy P
CountWhere(frame, P(_)) ==
    ISum([i \in DOMAIN HeartRowSeq |->
            IF P(HeartRowSeq[i]) THEN frame.rows[HeartRowSeq[i]] ELSE 0])

\* the values of col that occur in frame, in sorted order
Present(frame, col, order) ==
    Select(order, {v \in Range(order) :
                     CountWhere(frame, LAMBDA r : r[col] = v) > 0})

\* pd.crosstab(frame[a], frame[b]): only the categories that occur
crosstab(frame, a, aorder, b, border) ==
    LET idx == Present(frame, a, aorder)
        cls == Present(frame, b, border)
    IN  [index |-> idx, columns |-> cls,
         m |-> [i \in DOMAIN idx |-> [j \in DOMAIN cls |->
                  CountWhere(frame, LAMBDA r : r[a] = idx[i] /\ r[b] = cls[j])]]]

(***************************************************************************)
(* scipy.stats: the chi-squared tests.  A p-value is the survival function *)
(* of a distribution at the statistic; the distribution functions are not  *)
(* evaluated, a p-value records which function was applied to what.        *)
(***************************************************************************)
Sf(dist, x, dofs) == [dist |-> dist, fn |-> "sf", x |-> x, dof |-> dofs]

Shape(m) == <<Len(m), IF Len(m) = 0 THEN 0 ELSE Len(m[1])>>

Size(m) == Shape(m)[1] * Shape(m)[2]

RowTotal(m, i) == ISum(m[i])

ColTotal(m, j) == ISum([i \in DOMAIN m |-> m[i][j]])

GrandTotal(m) == ISum([i \in DOMAIN m |-> RowTotal(m, i)])

\* a faulty variant: the column totals are taken from the wrong end of the table
expected_freq_reversed(m) ==
    [i \in DOMAIN m |-> [j \in DOMAIN m[i] |->
        FDiv(I(RowTotal(m, i) * ColTotal(m, Len(m[i]) + 1 - j)),
             I(GrandTotal(m)))]]

\* scipy.stats.contingency.expected_freq
expected_freq(m) ==
    [i \in DOMAIN m |-> [j \in DOMAIN m[i] |->
        FDiv(I(RowTotal(m, i) * ColTotal(m, j)), I(GrandTotal(m)))]]

\* relative tolerance of the check that observed and expected sums agree
SumRtol == R(1, 100000000)

SumsDisagree(f_obs, f_exp) ==
    LET so == FSum(f_obs)
        se == FSum(f_exp)
    IN  FLt(SumRtol, FDiv(FAbs(FSub(so, se)), FMin(so, se)))

\* a faulty variant: the difference is not squared
PearsonTermUnsquared(o, e) == FDiv(FSub(o, e), e)

PearsonTerm(o, e) == FDiv(FMul(FSub(o, e), FSub(o, e)), e)

\* scipy.stats.power_divergence with lambda_ = 1 on flat arrays
power_divergence(f_obs, f_exp, ddof) ==
    IF SumsDisagree(f_obs, f_exp)
    THEN [error |-> "ValueError", statistic |-> NaN, pvalue |-> NaN]
    ELSE LET stat == FSum([i \in DOMAIN f_obs |-> PearsonTerm(f_obs[i], f_exp[i])])
         IN  [error |-> "ok", statistic |-> stat,
              pvalue |-> Sf("chi2", stat, <<Len(f_obs) - 1 - ddof>>)]

Half == R(1, 2)

\* a faulty variant: the correction always moves the count by one half
YatesAdjustUncapped(o, e) == FAdd(o, FMul(Half, FSign(FSub(e, o))))

\* Yates' continuity correction of one observed count
YatesAdjust(o, e) ==
    LET diff == FSub(e, o)
    IN  FAdd(o, FMul(FMin(Half, FAbs(diff)), FSign(diff)))

\* a faulty variant: the degrees of freedom of a flat list of categories
ContingencyDofFlat(m) == Size(m) - 1

ContingencyDof(m) == Size(m) - (Shape(m)[1] + Shape(m)[2]) + 2 - 1

\* scipy.stats.chi2_contingency(observed) with the default correction=True
chi2_contingency(m) ==
    LET bad == [error |-> "ValueError", statistic |-> NaN, pvalue |-> NaN,
                dof |-> 0, expected_freq |-> <<>>]
        exp == expected_freq(m)
        dof == ContingencyDof(m)
        obs == [i \in DOMAIN m |-> [j \in DOMAIN m[i] |->
                  IF dof = 1 THEN YatesAdjust(I(m[i][j]), exp[i][j])
                  ELSE I(m[i][j])]]
        pd0 == power_divergence(Flatten(obs), Flatten(exp), Size(m) - 1 - dof)
    IN  IF Size(m) = 0 THEN bad
        ELSE IF \E i \in DOMAIN exp : \E j \in DOMAIN exp[i] : exp[i][j] = I(0)
        THEN bad
        ELSE IF dof = 0
        THEN [error |-> "ok", statistic |-> I(0), pvalue |-> I(1), dof |-> dof,
              expected_freq |-> exp]
        ELSE [error |-> pd0.error, statistic |-> pd0.statistic,
              pvalue |-> pd0.pvalue, dof |-> dof, expected_freq |-> exp]

\* scipy.stats.chisquare(f_obs, f_exp): numpy broadcasts a length-1 array
chisquare(f_obs, f_exp) ==
    LET n == IF Len(f_obs) > Len(f_exp) THEN Len(f_obs) ELSE Len(f_exp)
        bo == IF Len(f_obs) = 1 THEN [i \in 1..n |-> f_obs[1]] ELSE f_obs
        be == IF Len(f_exp) = 1 THEN [i \in 1..n |-> f_exp[1]] ELSE f_exp
    IN  IF Len(bo) # Len(be)
        THEN [error |-> "ValueError", statistic |-> NaN, pvalue |-> NaN]
        ELSE power_divergence(bo, be, 0)

(***************************************************************************)
(* The expected-frequency check of cells 15, 35 and 53.                    *)
(***************************************************************************)
AllGtOne(freqs) == \A i \in DOMAIN freqs : FLt(I(1), freqs[i])

NumLt5(freqs) == Cardinality({i \in DOMAIN freqs : FLt(freqs[i], I(5))})

PercLt5(freqs) == FMul(FDiv(I(NumLt5(freqs)), I(Len(freqs))), I(100))

\* DataFrame(expected, index=..., columns=...)
Labelled(m, table) == [index |-> table.index, columns |-> table.columns, m |-> m]

\* a faulty variant: the difference is divided by expected, not by its
\* square root
ResidualByExpected(o, e) == [diff |-> FSub(I(o), e), root |-> FMul(e, e)]

\* one cell of (contingency - expected) / expected.pow(0.5): the square
\* root is kept symbolic, the value is diff / sqrt(root)
Residual(o, e) == [diff |-> FSub(I(o), e), root |-> e]

Residuals(table, exptable) ==
    [index |-> table.index, columns |-> table.columns,
     m |-> [i \in DOMAIN table.m |-> [j \in DOMAIN table.m[i] |->
              Residual(table.m[i][j], exptable.m[i][j])]]]

(***************************************************************************)
(* chi_squared notebook, independence section.                             *)
(***************************************************************************)
Alpha == R(5, 100)

Chi_Cell0 ==
    /\ At("chi_squared", 0)
    /\ Cell("chi_squared", 0, {},
            [plt |-> Module, np |-> Module, pd |-> Module, sns |-> Module,
             here |-> Module, chi2 |-> Module, chi2_contingency |-> Module,
             chisquare |-> Module], <<>>)

Chi_Cell3 ==
    /\ At("chi_squared", 3)
    /\ Cell("chi_squared", 3, {"np", "plt", "chi2"},
            [x |-> [lo |-> I(0), hi |-> I(10), num |-> 1000], dof |-> 9], <<>>)

Chi_Cell5 ==
    /\ At("chi_squared", 5)
    /\ \E frame \in HeartFrames :
          Cell("chi_squared", 5, {"pd", "here"}, [df_original |-> frame], <<>>)

Chi_Cell8 ==
    /\ At("chi_squared", 8)
    /\ IF Bound({"df_original"})
       THEN Finish([df_independence |->
                        Project(V("df_original"), {"Sex", "HeartDisease"})], <<>>)
       ELSE Raise("NameError")

Chi_Cell10 ==
    /\ At("chi_squared", 10)
    /\ IF Bound({"pd", "df_independence"})
       THEN Finish([contingency |->
                        crosstab(V("df_independence"), "Sex", SexValues,
                                 "HeartDisease", DiseaseValues)], <<>>)
       ELSE Raise("NameError")

\* chi2_stat, p_chi, df, expected = chi2_contingency(contingency)
ContingencyTest(c) ==
    /\ At("chi_squared", c)
    /\ IF Bound({"chi2_contingency", "contingency"})
       THEN LET res == chi2_contingency(V("contingency").m)
            IN  IF res.error # "ok" THEN Raise(res.error)
                ELSE Finish([chi2_stat |-> res.statistic, p_chi |-> res.pvalue,
                             df |-> res.dof, expected |-> res.expected_freq],
                            <<[cell |-> c, fn |-> "chi2_contingency",
                               args |-> <<ns["contingency"]>>,
                               dof |-> <<res.dof>>]>>)
       ELSE Raise("NameError")

Chi_Cell13 ==
    /\ At("chi_squared", 13)
    /\ ContingencyTest(13)

\* frequencies = expected.flatten(); all_gt_one; num_lt_5; perc_lt_5
FrequencyCheck(c) ==
    /\ At("chi_squared", c)
    /\ IF Bound({"expected", "np"})
       THEN LET freqs == Flatten(V("expected"))
            IN  Finish([frequencies |-> freqs, all_gt_one |-> AllGtOne(freqs),
                        num_lt_5 |-> NumLt5(freqs),
                        perc_lt_5 |-> PercLt5(freqs)], <<>>)
       ELSE Raise("NameError")

Chi_Cell15 ==
    /\ At("chi_squared", 15)
    /\ FrequencyCheck(15)

Chi_Cell20 ==
    /\ At("chi_squared", 20)
    /\ IF Bound({"chi2_stat", "np", "chi2", "df", "plt"})
       THEN LET lo == IF FLt(FMul(V("chi2_stat"), R(99, 100)), I(0)) THEN I(0)
                      ELSE FMul(V("chi2_stat"), R(99, 100))
                hi == FMul(V("chi2_stat"), R(101, 100))
                xs == [lo |-> lo, hi |-> hi, num |-> 500]
            IN  Finish([alpha |-> Alpha, x_min |-> lo, x_max |-> hi, x |-> xs,
                        y |-> [dist |-> "chi2", fn |-> "pdf", x |-> xs,
                               dof |-> <<V("df")>>]],
                       <<[cell |-> 20, fn |-> "chi2.pdf", args |-> <<ns["df"]>>,
                          dof |-> <<V("df")>>],
                         [cell |-> 20, fn |-> "fill_between",
                          args |-> <<ns["chi2_stat"]>>,
                          dof |-> <<V("df")>>]>>)
       ELSE Raise("NameError")

\* expected_contingency = pd.DataFrame(expected, index=..., columns=...)
ExpectedFrame(c) ==
    /\ At("chi_squared", c)
    /\ IF Bound({"pd", "expected", "contingency"})
       THEN Finish([expected_contingency |->
                        Labelled(V("expected"), V("contingency"))], <<>>)
       ELSE Raise("NameError")

Chi_Cell22 ==
    /\ At("chi_squared", 22)
    /\ ExpectedFrame(22)

\* residuals = (contingency - expected_contingency) / expected_contingency.pow(0.5)
ResidualCell(c) ==
    /\ At("chi_squared", c)
    /\ IF Bound({"contingency", "expected_contingency"})
       THEN Finish([residuals |->
                        Residuals(V("contingency"), V("expected_contingency"))],
                   <<>>)
       ELSE Raise("NameError")

Chi_Cell24 ==
    /\ At("chi_squared", 24)
    /\ ResidualCell(24)

Chi_Cell25 ==
    /\ At("chi_squared", 25)
    /\ Cell("chi_squared", 25, {"sns", "residuals"}, <<>>, <<>>)

(***************************************************************************)
(* chi_squared notebook, goodness-of-fit section.                          *)
(***************************************************************************)
\* insert count c into a sequence of counts kept in descending order
RECURSIVE InsertDesc(_, _)
InsertDesc(s, c) ==
    IF s = <<>> THEN <<c>>
    ELSE IF c > Head(s) THEN <<c>> \o s
    ELSE <<Head(s)>> \o InsertDesc(Tail(s), c)

\* frame.value_counts().to_numpy() of a frame showing the single column col:
\* the counts of the values that occur, largest first
value_counts(frame, col, order) ==
    LET vs == Present(frame, col, order)
        RECURSIVE Ins(_)
        Ins(k) == IF k = 0 THEN <<>>
                  ELSE InsertDesc(Ins(k - 1),
                         CountWhere(frame, LAMBDA r : r[col] = vs[k]))
    IN  Ins(Len(vs))

ExpectedDist == <<R(1, 2), R(1, 2)>>

\* a faulty variant: scales by the number of categories, not by the observed total
ScaleByLength(dist, total) == [i \in DOMAIN dist |-> FMul(dist[i], I(Len(dist)))]

\* expected_dist * observed.sum()
Scale(dist, total) == [i \in DOMAIN dist |-> FMul(dist[i], I(total))]

Chi_Cell29 ==
    /\ At("chi_squared", 29)
    /\ IF Bound({"df_original"})
       THEN Finish([df_fit |-> Project(V("df_original"), {"Sex"})], <<>>)
       ELSE Raise("NameError")

Chi_Cell31 ==
    /\ At("chi_squared", 31)
    /\ Cell("chi_squared", 31, {"df_fit"}, <<>>, <<>>)

Chi_Cell33 ==
    /\ At("chi_squared", 33)
    /\ IF Bound({"df_fit", "np"})
       THEN LET obs == value_counts(V("df_fit"), "Sex", SexValues)
            IN  Finish([observed |-> obs, expected_dist |-> ExpectedDist,
                        expected |-> Scale(ExpectedDist, ISum(obs))], <<>>)
       ELSE Raise("NameError")

\* all_gt_one from expected; num_lt_5 and perc_lt_5 from frequencies
Chi_Cell35 ==
    /\ At("chi_squared", 35)
    /\ IF Bound({"expected", "np", "frequencies"})
       THEN Finish([all_gt_one |-> AllGtOne(V("expected")),
                    num_lt_5 |-> NumLt5(V("frequencies")),
                    perc_lt_5 |-> PercLt5(V("frequencies"))],
                   <<[cell |-> 35, fn |-> "expected_frequency_check",
                      args |-> <<ns["expected"], ns["frequencies"]>>,
                      dof |-> <<>>]>>)
       ELSE Raise("NameError")

Chi_Cell38 ==
    /\ At("chi_squared", 38)
    /\ IF Bound({"chisquare", "observed", "expected"})
       THEN LET obs == [i \in DOMAIN V("observed") |-> I(V("observed")[i])]
                res == chisquare(obs, V("expected"))
            IN  IF res.error # "ok" THEN Raise(res.error)
                ELSE Finish([chi2_stat |-> res.statistic, p_chi |-> res.pvalue],
                            <<[cell |-> 38, fn |-> "chisquare",
                               args |-> <<ns["observed"], ns["expected"]>>,
                               dof |-> res.pvalue.dof]>>)
       ELSE Raise("NameError")

\* the sweep of cell 41: n_males = 1 .. n/2 against a uniform expectation
SweepN == 1000

SweepProportions == SubSeq([i \in 1..(SweepN - 1) |-> i], 1, SweepN \div 2)

SweepExpected == <<FMul(R(1, 2), I(SweepN)), FMul(R(1, 2), I(SweepN))>>

SweepObserved(n_males) == <<I(n_males), I(SweepN - n_males)>>

SweepTests ==
    [i \in DOMAIN SweepProportions |->
        chisquare(SweepObserved(SweepProportions[i]), SweepExpected)]

SweepRatios ==
    [i \in DOMAIN SweepProportions |->
        FDiv(I(SweepProportions[i]), I(SweepN - SweepProportions[i]))]

Chi_Cell41 ==
    /\ At("chi_squared", 41)
    /\ IF ~Bound({"chisquare", "plt"}) THEN Raise("NameError")
       ELSE IF \E i \in DOMAIN SweepTests : SweepTests[i].error # "ok"
       THEN Raise("ValueError")
       ELSE LET last == Len(SweepProportions)
            IN  Finish([n |-> SweepN, proportions |-> SweepProportions,
                        chi_values |-> [i \in DOMAIN SweepTests |->
                                           SweepTests[i].statistic],
                        p_values |-> [i \in DOMAIN SweepTests |->
                                         SweepTests[i].pvalue],
                        ratio_mf |-> SweepRatios,
                        expected |-> SweepExpected,
                        n_males |-> SweepProportions[last],
                        n_females |-> SweepN - SweepProportions[last],
                        observed |-> <<SweepProportions[last],
                                       SweepN - SweepProportions[last]>>,
                        stat |-> SweepTests[last].statistic,
                        p |-> SweepTests[last].pvalue], <<>>)

(***************************************************************************)
(* chi_squared notebook, homogeneity section.                              *)
(***************************************************************************)
\* counts with its Proportion column: one row per (Sex, ChestPainType) that
\* occurs, keyed by the pair; the order of the rows is not modelled
ProportionTable(frame) ==
    LET cnt(s, t) == CountWhere(frame, LAMBDA r : r.Sex = s /\ r.ChestPainType = t
                                                  /\ r.HeartDisease = 1)
        tot(s) == CountWhere(frame, LAMBDA r : r.Sex = s /\ r.HeartDisease = 1)
        keys == {k \in Range(SexValues) \X Range(PainValues) : cnt(k[1], k[2]) > 0}
    IN  [k \in keys |-> [count |-> cnt(k[1], k[2]),
                         Proportion |-> FDiv(I(cnt(k[1], k[2])), I(tot(k[1])))]]

Chi_Cell45 ==
    /\ At("chi_squared", 45)
    /\ IF Bound({"df_original"})
       THEN Finish([df_homogeneity |->
                        Project(V("df_original"),
                                {"Sex", "ChestPainType", "HeartDisease"})], <<>>)
       ELSE Raise("NameError")

\* a faulty variant: the filter is applied to the full dataset in place
Chi_Cell47FiltersOriginal ==
    /\ At("chi_squared", 47)
    /\ IF Bound({"df_homogeneity", "df_original"})
       THEN LET f == Filter(V("df_homogeneity"), "HeartDisease", 1)
                t == ProportionTable(f)
            IN  Finish([df_homogeneity |-> f, counts |-> t,
                        df_original |-> Filter(V("df_original"), "HeartDisease", 1),
                        sex_totals |-> [k \in DOMAIN t |->
                            CountWhere(f, LAMBDA r : r.Sex = k[1])]], <<>>)
       ELSE Raise("NameError")

Chi_Cell47 ==
    /\ At("chi_squared", 47)
    /\ IF Bound({"df_homogeneity"})
       THEN LET f == Filter(V("df_homogeneity"), "HeartDisease", 1)
                t == ProportionTable(f)
            IN  Finish([df_homogeneity |-> f, counts |-> t,
                        sex_totals |-> [k \in DOMAIN t |->
                            CountWhere(f, LAMBDA r : r.Sex = k[1])]], <<>>)
       ELSE Raise("NameError")

Chi_Cell48 ==
    /\ At("chi_squared", 48)
    /\ Cell("chi_squared", 48, {"sns", "counts", "plt"}, <<>>, <<>>)

Chi_Cell50 ==
    /\ At("chi_squared", 50)
    /\ IF Bound({"pd", "df_homogeneity"})
       THEN Finish([contingency |->
                        crosstab(V("df_homogeneity"), "Sex", SexValues,
                                 "ChestPainType", PainValues)], <<>>)
       ELSE Raise("NameError")

Chi_Cell51 ==
    /\ At("chi_squared", 51)
    /\ ContingencyTest(51)

Chi_Cell53 ==
    /\ At("chi_squared", 53)
    /\ FrequencyCheck(53)

\* chi2_crit = chi2.pdf(alpha, df); the shaded region is [0, chi2_crit]
Chi_Cell58 ==
    /\ At("chi_squared", 58)
    /\ IF Bound({"np", "chi2", "df", "plt", "chi2_stat"})
       THEN LET xs == [lo |-> I(0), hi |-> I(5), num |-> 500]
                crit == [dist |-> "chi2", fn |-> "pdf", x |-> Alpha,
                         dof |-> <<V("df")>>]
                fill == [lo |-> I(0), hi |-> crit, num |-> 500]
            IN  Finish([alpha |-> Alpha, x |-> xs,
                        y |-> [dist |-> "chi2", fn |-> "pdf", x |-> xs,
                               dof |-> <<V("df")>>],
                        chi2_crit |-> crit, x_fill |-> fill],
                       <<[cell |-> 58, fn |-> "chi2.pdf", args |-> <<ns["df"]>>,
                          dof |-> <<V("df")>>],
                         [cell |-> 58, fn |-> "fill_between",
                          args |-> <<ns["chi2_stat"]>>,
                          dof |-> <<V("df")>>]>>)
       ELSE Raise("NameError")

Chi_Cell60 ==
    /\ At("chi_squared", 60)
    /\ ExpectedFrame(60)

Chi_Cell61 ==
    /\ At("chi_squared", 61)
    /\ ResidualCell(61)

Chi_Cell62 ==
    /\ At("chi_squared", 62)
    /\ Cell("chi_squared", 62, {"sns", "residuals"}, <<>>, <<>>)

InitChi ==
    /\ nb = "chi_squared"
    /\ pc = 0
    /\ status = "ok"
    /\ ns = <<>>
    /\ calls = <<>>

NextChi ==
    \/ Chi_Cell0 \/ Chi_Cell3 \/ Chi_Cell5 \/ Chi_Cell8 \/ Chi_Cell10
    \/ Chi_Cell13 \/ Chi_Cell15 \/ Chi_Cell20 \/ Chi_Cell22 \/ Chi_Cell24
    \/ Chi_Cell25 \/ Chi_Cell29 \/ Chi_Cell31 \/ Chi_Cell33 \/ Chi_Cell35
    \/ Chi_Cell38 \/ Chi_Cell41 \/ Chi_Cell45 \/ Chi_Cell47 \/ Chi_Cell48
    \/ Chi_Cell50 \/ Chi_Cell51 \/ Chi_Cell53 \/ Chi_Cell58 \/ Chi_Cell60
    \/ Chi_Cell61 \/ Chi_Cell62

SpecChi == InitChi /\ [][NextChi]_vars

(***************************************************************************)
(* sklearn frames of the anova and t_tests notebooks: a frame is the       *)
(* sequence of its rows, a row a pair <<label, value>>.  Frames are drawn  *)
(* with their rows in non-decreasing order: no cell depends on row order.  *)
(***************************************************************************)
\* the non-decreasing sequences of length n over 1..k
RECURSIVE NonDecreasing(_, _)
NonDecreasing(n, k) ==
    IF n = 0 THEN {<<>>}
    ELSE UNION {{Append(s, x) : x \in (IF s = <<>> THEN 1 ELSE s[Len(s)])..k} :
                  s \in NonDecreasing(n - 1, k)}

\* row number x of a frame with the given labels and values 0..maxval
RowNo(x, labels, maxval) ==
    <<labels[((x - 1) \div (maxval + 1)) + 1], (x - 1) % (maxval + 1)>>

Frames(labels, maxval, maxobs) ==
    {[k |-> "frame", rows |-> [i \in DOMAIN s |-> RowNo(s[i], labels, maxval)]] :
        s \in UNION {NonDecreasing(n, Len(labels) * (maxval + 1)) : n \in 0..maxobs}}

WineFrames == Frames(<<0, 1, 2>>, MaxVal, MaxObsA)

\* the measured values of the t_tests frames are 0 and 1
DiabetesFrames == Frames(<<1, 2>>, 1, MaxObsT)

CancerFrames == Frames(<<0, 1>>, 1, MaxObsT)

IsFrame(v) == v.k = "frame"

\* a faulty variant: selects the rows whose label is at most v
GroupOfAtMost(frame, v) ==
    LET keep == {i \in DOMAIN frame.rows : frame.rows[i][1] <= v}
        RECURSIVE Pick(_)
        Pick(i) == IF i > Len(frame.rows) THEN <<>>
                   ELSE (IF i \in keep THEN <<frame.rows[i][2]>> ELSE <<>>)
                        \o Pick(i + 1)
    IN  Pick(1)

\* frame[frame[label] == v][value]: the values of the rows labelled v
GroupOf(frame, v) ==
    LET keep == {i \in DOMAIN frame.rows : frame.rows[i][1] = v}
        RECURSIVE Pick(_)
        Pick(i) == IF i > Len(frame.rows) THEN <<>>
                   ELSE (IF i \in keep THEN <<frame.rows[i][2]>> ELSE <<>>)
                        \o Pick(i + 1)
    IN  Pick(1)

(***************************************************************************)
(* numpy / scipy.stats on samples (sequences of integers).                 *)
(***************************************************************************)
\* an array of integers as an array of floats (\o <<>> makes a function on
\* 1..n the tuple of its values)
Floats(xs) == [i \in DOMAIN xs |-> I(xs[i])] \o <<>>

Mean(fs) == FDiv(FSum(fs), I(Len(fs)))

Concat(samples) == Flatten(samples)

RECURSIVE InsertAsc(_, _)
InsertAsc(s, x) ==
    IF s = <<>> THEN <<x>>
    ELSE IF x <= Head(s) THEN <<x>> \o s
    ELSE <<Head(s)>> \o InsertAsc(Tail(s), x)

RECURSIVE Sorted(_)
Sorted(xs) == IF xs = <<>> THEN <<>> ELSE InsertAsc(Sorted(Tail(xs)), Head(xs))

\* np.median of a non-empty sample
Median(xs) ==
    LET s == Sorted(xs)
        n == Len(s)
    IN  IF n % 2 = 1 THEN I(s[(n + 1) \div 2])
        ELSE R(s[n \div 2] + s[n \div 2 + 1], 2)

SumOfSquares(fs) == FSum([i \in DOMAIN fs |-> FMul(fs[i], fs[i])])

SquareOfSums(fs) == FMul(FSum(fs), FSum(fs))

IsConst(fs) == \A i \in DOMAIN fs : fs[i] = fs[1]

AnyEmpty(samples) == \E g \in DOMAIN samples : Len(samples[g]) = 0

\* a faulty variant: the within-group degrees of freedom are taken as N - 1
WithinDofTotal(bign, k) == bign - 1

WithinDof(bign, k) == bign - k

\* scipy.stats.f_oneway(*samples) on samples of floats
f_oneway(samples) ==
    LET k == Len(samples)
        alldata0 == Concat(samples)
        bign == Len(alldata0)
        offset == Mean(alldata0)
        alldata == [i \in DOMAIN alldata0 |-> FSub(alldata0[i], offset)] \o <<>>
        normalized_ss == FDiv(SquareOfSums(alldata), I(bign))
        sstot == FSub(SumOfSquares(alldata), normalized_ss)
        ssbn == FSub(FSum([g \in DOMAIN samples |->
                        FDiv(SquareOfSums([i \in DOMAIN samples[g] |->
                                              FSub(samples[g][i], offset)]),
                             I(Len(samples[g])))]),
                     normalized_ss)
        sswn == FSub(sstot, ssbn)
        dfbn == k - 1
        dfwn == WithinDof(bign, k)
        msb == FDiv(ssbn, I(dfbn))
        msw == FDiv(sswn, I(dfwn))
        f0 == FDiv(msb, msw)
        all_const == \A g \in DOMAIN samples : IsConst(samples[g])
        all_same_const == IsConst(alldata0)
    IN  IF AnyEmpty(samples) \/ \A g \in DOMAIN samples : Len(samples[g]) = 1
        THEN [statistic |-> NaN, pvalue |-> NaN, dof |-> <<dfbn, dfwn>>]
        ELSE IF all_same_const
        THEN [statistic |-> NaN, pvalue |-> NaN, dof |-> <<dfbn, dfwn>>]
        ELSE IF all_const
        THEN [statistic |-> Inf(1), pvalue |-> I(0), dof |-> <<dfbn, dfwn>>]
        ELSE [statistic |-> f0, pvalue |-> Sf("f", f0, <<dfbn, dfwn>>),
              dof |-> <<dfbn, dfwn>>]

\* a faulty variant: deviations from the group mean
CenterMean(xs) == Mean(Floats(xs))

\* the centre levene() uses by default (center='median')
Center(xs) == Median(xs)

\* abs(sample - Yc): the absolute deviations of a sample from its centre
Deviations(xs) ==
    LET Yc == Center(xs)
    IN  [i \in DOMAIN xs |-> FAbs(FSub(I(xs[i]), Yc))] \o <<>>

\* np.sum((Zij[i] - Zbari[i]) ** 2)
SquaredAbout(zs, zbar) == FSum([i \in DOMAIN zs |-> FMul(FSub(zs[i], zbar),
                                                        FSub(zs[i], zbar))])

\* the one element of a singleton set; The({e(v) : v \in {x}}) computes x
\* once and names it v in e
The(S) == CHOOSE x \in S : TRUE

\* the statistic of levene from the deviations Zij and their group means Zbari
LeveneW(Ni, Zij, Zbari) ==
    LET k == Len(Ni)
        Ntot == ISum(Ni)
        Zbar == FDiv(FSum([g \in DOMAIN Ni |-> FMul(Zbari[g], I(Ni[g]))]), I(Ntot))
        numer == FMul(I(Ntot - k),
                      FSum([g \in DOMAIN Ni |->
                              FMul(I(Ni[g]), FMul(FSub(Zbari[g], Zbar),
                                                  FSub(Zbari[g], Zbar)))]))
        dvar == FSum([g \in DOMAIN Ni |-> SquaredAbout(Zij[g], Zbari[g])])
        denom == FMul(I(k - 1), dvar)
    IN  FDiv(numer, denom)

\* scipy.stats.levene(*samples) on samples of integers
levene(samples) ==
    LET k == Len(samples)
        Ni == [g \in DOMAIN samples |-> Len(samples[g])]
        Ntot == ISum(Ni)
    IN  IF AnyEmpty(samples)
        THEN [statistic |-> NaN, pvalue |-> NaN, dof |-> <<k - 1, Ntot - k>>]
        ELSE The({[statistic |-> W,
                   pvalue |-> IF W.k = "nan" THEN NaN
                              ELSE Sf("f", W, <<k - 1, Ntot - k>>),
                   dof |-> <<k - 1, Ntot - k>>] :
                  W \in {The({The({LeveneW(Ni, Zij, Zbari) :
                                     Zbari \in {[g \in DOMAIN Zij |->
                                                   Mean(Zij[g])] \o <<>>}}) :
                              Zij \in {[g \in DOMAIN samples |->
                                          Deviations(samples[g])] \o <<>>}})}})

\* a faulty variant: the population variance, dividing by n instead of n - 1
VarPopulation(xs) ==
    The({FDiv(FSum([i \in DOMAIN xs |-> FMul(FSub(I(xs[i]), m), FSub(I(xs[i]), m))]),
              I(Len(xs))) :
           m \in {Mean(Floats(xs))}})

\* np.var(xs, ddof=1)
Var(xs) ==
    The({FDiv(FSum([i \in DOMAIN xs |-> FMul(FSub(I(xs[i]), m), FSub(I(xs[i]), m))]),
              I(Len(xs) - 1)) :
           m \in {Mean(Floats(xs))}})

\* num / sqrt(rad): the square root is kept symbolic
QuotSqrt(num, rad) ==
    IF num.k = "nan" \/ rad.k = "nan" THEN NaN
    ELSE IF rad = I(0) THEN FDiv(num, rad)
    ELSE [k |-> "quot_sqrt", num |-> num, rad |-> rad, n |-> Sgn(num.n), d |-> 1]

\* a faulty variant: the sign of t is kept
TSigned(tt) == tt

\* np.abs(t) of a statistic whose square root is kept symbolic
TAbs(tt) ==
    IF tt.k = "quot_sqrt" THEN [tt EXCEPT !.num = FAbs(@), !.n = Abs(@)]
    ELSE FAbs(tt)

\* the two-sided p-value of a statistic tt of the t distribution with dfw
\* degrees of freedom: twice the upper tail area beyond |tt|
TwoSidedP(tt, dfw) ==
    IF tt.k = "nan" THEN NaN
    ELSE [dist |-> "t", fn |-> "two_sided", x |-> TAbs(tt), dof |-> <<dfw>>]

\* Welch's statistic, p-value and degrees of freedom from the sample sizes,
\* the variances of the means vn1 = v1 / n1, vn2 = v2 / n2 and mean1 - mean2;
\* the two-sided p-value is twice the upper tail area beyond |t|
Welch(n1, n2, vn1, vn2, diff) ==
    LET df0 == FDiv(FMul(FAdd(vn1, vn2), FAdd(vn1, vn2)),
                    FAdd(FDiv(FMul(vn1, vn1), I(n1 - 1)),
                         FDiv(FMul(vn2, vn2), I(n2 - 1))))
    IN  The({[statistic |-> tt, pvalue |-> TwoSidedP(tt, dfw), df |-> dfw] :
             tt \in {QuotSqrt(diff, FAdd(vn1, vn2))},
             dfw \in {IF df0.k = "nan" THEN I(1) ELSE df0}})

\* scipy.stats.ttest_ind(a, b, equal_var=False): Welch's test
ttest_ind(a, b) ==
    LET n1 == Len(a)
        n2 == Len(b)
    IN  IF n1 = 0 \/ n2 = 0
        THEN [statistic |-> NaN, pvalue |-> NaN, df |-> NaN]
        ELSE The({Welch(n1, n2, vn1, vn2, diff) :
                    vn1 \in {FDiv(Var(a), I(n1))},
                    vn2 \in {FDiv(Var(b), I(n2))},
                    diff \in {FSub(Mean(Floats(a)), Mean(Floats(b)))}})

(***************************************************************************)
(* anova notebook.                                                         *)
(***************************************************************************)
Anova_Cell0 ==
    /\ At("anova", 0)
    /\ Cell("anova", 0, {},
            [datasets |-> Module, levene |-> Module, f_oneway |-> Module,
             f |-> Module, plt |-> Module, stats |-> Module, np |-> Module], <<>>)

Anova_Cell3 ==
    /\ At("anova", 3)
    /\ Cell("anova", 3, {"np", "plt", "f"},
            [df_pairs |-> <<<<1, 10>>, <<2, 20>>, <<5, 50>>, <<10, 100>>, <<3, 175>>>>,
             x |-> [lo |-> I(0), hi |-> I(5), num |-> 500],
             dfn |-> 3, dfd |-> 175,
             y |-> [dist |-> "f", fn |-> "pdf",
                    x |-> [lo |-> I(0), hi |-> I(5), num |-> 500],
                    dof |-> <<3, 175>>]], <<>>)

Anova_Cell5 ==
    /\ At("anova", 5)
    /\ \E frame \in WineFrames :
          Cell("anova", 5, {"datasets"}, [dataset |-> "wine", df |-> frame], <<>>)

\* a cell that uses df as a data frame and binds nothing
UsesFrame(n, c, reads) ==
    /\ At(n, c)
    /\ IF ~Bound(reads \cup {"df"}) THEN Raise("NameError")
       ELSE IF ~IsFrame(V("df")) THEN Raise("AttributeError")
       ELSE Finish(<<>>, <<[cell |-> c, fn |-> "frame", args |-> <<ns["df"]>>,
                           dof |-> <<>>]>>)

Anova_Cell7 ==
    /\ At("anova", 7)
    /\ UsesFrame("anova", 7, {})

Anova_Cell9 ==
    /\ At("anova", 9)
    /\ UsesFrame("anova", 9, {})

Anova_Cell12 ==
    /\ At("anova", 12)
    /\ IF ~Bound({"df"}) THEN Raise("NameError")
       ELSE IF ~IsFrame(V("df")) THEN Raise("TypeError")
       ELSE Finish([group_0 |-> GroupOf(V("df"), 0),
                    group_1 |-> GroupOf(V("df"), 1),
                    group_2 |-> GroupOf(V("df"), 2)], <<>>)

Anova_Cell17 ==
    /\ At("anova", 17)
    /\ Cell("anova", 17, {"plt", "stats", "group_0", "group_1", "group_2"},
            [fig |-> "figure", axs |-> "axes"], <<>>)

\* levene_stat, levene_p_stat = levene(...) on the named groups
LeveneCell(n, c, names) ==
    /\ At(n, c)
    /\ IF ~Bound({"levene"} \cup Range(names)) THEN Raise("NameError")
       ELSE LET res == levene([i \in DOMAIN names |-> V(names[i])])
            IN  Finish([levene_stat |-> res.statistic,
                        levene_p_stat |-> res.pvalue],
                       <<[cell |-> c, fn |-> "levene",
                          args |-> [i \in DOMAIN names |-> ns[names[i]]],
                          dof |-> res.dof]>>)

Anova_Cell20 ==
    /\ At("anova", 20)
    /\ LeveneCell("anova", 20, <<"group_0", "group_1", "group_2">>)

Anova_Cell25 ==
    /\ At("anova", 25)
    /\ IF ~Bound({"f_oneway", "group_0", "group_1", "group_2"})
       THEN Raise("NameError")
       ELSE LET res == f_oneway(<<Floats(V("group_0")), Floats(V("group_1")),
                                  Floats(V("group_2"))>>)
            IN  Finish([f_stat |-> res.statistic, p_value |-> res.pvalue],
                       <<[cell |-> 25, fn |-> "f_oneway",
                          args |-> <<ns["group_0"], ns["group_1"], ns["group_2"]>>,
                          dof |-> res.dof]>>)

\* df_between = 2; df_within = len(df) - 3
Anova_Cell28 ==
    /\ At("anova", 28)
    /\ IF ~Bound({"df", "f_stat", "np", "f", "plt"}) THEN Raise("NameError")
       ELSE IF ~IsFrame(V("df")) THEN Raise("TypeError")
       ELSE LET within == Len(V("df").rows) - 3
                lo == FMul(V("f_stat"), FSub(I(1), R(1, 100)))
                hi == FMul(V("f_stat"), FAdd(I(1), R(1, 100)))
                xs == [lo |-> lo, hi |-> hi, num |-> 1000]
            IN  Finish([alpha |-> Alpha, df_between |-> 2, df_within |-> within,
                        perc |-> R(1, 100), x_min |-> lo, x_max |-> hi, x |-> xs,
                        y |-> [dist |-> "f", fn |-> "pdf", x |-> xs,
                               dof |-> <<2, within>>],
                        f_crit |-> [dist |-> "f", fn |-> "ppf",
                                    x |-> FSub(I(1), Alpha), dof |-> <<2, within>>]],
                       <<[cell |-> 28, fn |-> "f.pdf", args |-> <<ns["df"]>>,
                          dof |-> <<2, within>>]>>)

InitAnova ==
    /\ nb = "anova"
    /\ pc = 0
    /\ status = "ok"
    /\ ns = <<>>
    /\ calls = <<>>

NextAnova ==
    \/ Anova_Cell0 \/ Anova_Cell3 \/ Anova_Cell5 \/ Anova_Cell7 \/ Anova_Cell9
    \/ Anova_Cell12 \/ Anova_Cell17 \/ Anova_Cell20 \/ Anova_Cell25
    \/ Anova_Cell28

SpecAnova == InitAnova /\ [][NextAnova]_vars

(***************************************************************************)
(* t_tests notebook.                                                       *)
(***************************************************************************)
T_Cell0 ==
    /\ At("t_tests", 0)
    /\ Cell("t_tests", 0, {},
            [datasets |-> Module, norm |-> Module, t |-> Module, levene |-> Module,
             ttest_ind |-> Module, plt |-> Module, stats |-> Module, np |-> Module],
            <<>>)

T_Cell3 ==
    /\ At("t_tests", 3)
    /\ Cell("t_tests", 3, {"np", "norm", "t", "plt"},
            [x |-> [lo |-> I(-5), hi |-> I(5), num |-> 500],
             normal_pdf |-> [dist |-> "norm", fn |-> "pdf", dof |-> <<>>],
             t_dof1 |-> [dist |-> "t", fn |-> "pdf", dof |-> <<1>>],
             t_dof3 |-> [dist |-> "t", fn |-> "pdf", dof |-> <<3>>],
             t_dof10 |-> [dist |-> "t", fn |-> "pdf", dof |-> <<10>>]], <<>>)

T_Cell5 ==
    /\ At("t_tests", 5)
    /\ \E frame \in DiabetesFrames :
          Cell("t_tests", 5, {"datasets"}, [dataset |-> "diabetes", df |-> frame],
               <<>>)

T_Cell7 ==
    /\ At("t_tests", 7)
    /\ UsesFrame("t_tests", 7, {})

T_Cell10 ==
    /\ At("t_tests", 10)
    /\ UsesFrame("t_tests", 10, {})

\* first = df[df[label] == a][value]; second = df[df[label] == b][value]
GroupCell(c, first, a, second, b) ==
    /\ At("t_tests", c)
    /\ IF ~Bound({"df"}) THEN Raise("NameError")
       ELSE IF ~IsFrame(V("df")) THEN Raise("TypeError")
       ELSE Finish(first :> GroupOf(V("df"), a) @@ second :> GroupOf(V("df"), b),
                   <<>>)

T_Cell14 ==
    /\ At("t_tests", 14)
    /\ GroupCell(14, "group_1", 1, "group_2", 2)

\* fig, axs = plt.subplots(1, 2, ...); stats.probplot of the named groups
ProbplotCell(c, names) ==
    Cell("t_tests", c, {"plt", "stats"} \cup Range(names),
         [fig |-> "figure", axs |-> "axes"], <<>>)

T_Cell19 ==
    /\ At("t_tests", 19)
    /\ ProbplotCell(19, <<"group_1", "group_2">>)

T_Cell23 ==
    /\ At("t_tests", 23)
    /\ UsesFrame("t_tests", 23, {})

T_Cell26 ==
    /\ At("t_tests", 26)
    /\ LeveneCell("t_tests", 26, <<"group_1", "group_2">>)

\* a faulty variant: the test cell leaves df alone
WelchCellKeepsDf(c, first, second) ==
    /\ At("t_tests", c)
    /\ IF ~Bound({"ttest_ind", first, second}) THEN Raise("NameError")
       ELSE LET result == ttest_ind(V(first), V(second))
            IN  Finish([result |-> result, t_stat |-> result.statistic,
                        p_two_tailed |-> result.pvalue],
                       <<[cell |-> c, fn |-> "ttest_ind",
                          args |-> <<ns[first], ns[second]>>,
                          dof |-> <<result.df>>]>>)

\* result = ttest_ind(<first>, <second>, equal_var=False)
\* t_stat, p_two_tailed, df = result.statistic, result.pvalue, result.df
WelchCell(c, first, second) ==
    /\ At("t_tests", c)
    /\ IF ~Bound({"ttest_ind", first, second}) THEN Raise("NameError")
       ELSE LET result == ttest_ind(V(first), V(second))
            IN  Finish([result |-> result, t_stat |-> result.statistic,
                        p_two_tailed |-> result.pvalue, df |-> result.df],
                       <<[cell |-> c, fn |-> "ttest_ind",
                          args |-> <<ns[first], ns[second]>>,
                          dof |-> <<result.df>>]>>)

T_Cell31 ==
    /\ At("t_tests", 31)
    /\ WelchCell(31, "group_2", "group_1")

\* p_two_tailed / 2 and 1 - p_two_tailed / 2, the tail area kept symbolic
HalfOf(p) == IF p = NaN THEN NaN ELSE [op |-> "half", of |-> p]

OneMinusHalfOf(p) == IF p = NaN THEN NaN ELSE [op |-> "one_minus_half", of |-> p]

\* a faulty variant: the branches exchanged, t_stat < 0
Negative(tt) == tt.k # "nan" /\ tt.n < 0

\* t_stat > 0
Positive(tt) == tt.k # "nan" /\ tt.n > 0

\* if t_stat > 0: p_two_tailed / 2, else: 1 - (p_two_tailed / 2)
OneTailedP(tt, p) == IF Positive(tt) THEN HalfOf(p) ELSE OneMinusHalfOf(p)

T_Cell33 ==
    /\ At("t_tests", 33)
    /\ IF ~Bound({"t_stat", "p_two_tailed"}) THEN Raise("NameError")
       ELSE Finish([p_one_tailed |-> OneTailedP(V("t_stat"), V("p_two_tailed"))],
                   <<>>)

T_Cell35 ==
    /\ At("t_tests", 35)
    /\ Cell("t_tests", 35, {"t_stat", "p_one_tailed"}, <<>>, <<>>)

\* x = np.linspace(lo, hi, num); y = t.pdf(x, df), and the other names
\* the plotting cell binds
TPlot(c, xs, others) ==
    /\ At("t_tests", c)
    /\ IF ~Bound({"np", "t", "plt", "df", "t_stat"}) THEN Raise("NameError")
       ELSE Finish([x |-> xs,
                    y |-> [dist |-> "t", fn |-> "pdf", x |-> xs,
                           dof |-> <<V("df")>>]] @@ others,
                   <<[cell |-> c, fn |-> "t.pdf", args |-> <<ns["df"]>>,
                      dof |-> <<V("df")>>]>>)

Linspace(lo, hi, num) == [lo |-> lo, hi |-> hi, num |-> num]

\* t.ppf(q, df)
TPpf(q, d) == [dist |-> "t", fn |-> "ppf", x |-> q, dof |-> <<d>>]

\* alpha = 0.05; t_crit = t.ppf(alpha, df); x_fill = np.linspace(-4, t_crit, 100)
LowerCritical(d) ==
    [alpha |-> Alpha, t_crit |-> TPpf(Alpha, d),
     x_fill |-> Linspace(I(-4), TPpf(Alpha, d), 100)]

T_Cell38 ==
    /\ At("t_tests", 38)
    /\ TPlot(38, Linspace(I(-4), I(4), 1000), LowerCritical(V("df")))

T_Cell41 ==
    /\ At("t_tests", 41)
    /\ \E frame \in CancerFrames :
          Cell("t_tests", 41, {"datasets"},
               [dataset |-> "breast_cancer", df |-> frame], <<>>)

T_Cell44 ==
    /\ At("t_tests", 44)
    /\ GroupCell(44, "group_0", 0, "group_1", 1)

T_Cell48 ==
    /\ At("t_tests", 48)
    /\ ProbplotCell(48, <<"group_0", "group_1">>)

T_Cell52 ==
    /\ At("t_tests", 52)
    /\ UsesFrame("t_tests", 52, {})

T_Cell55 ==
    /\ At("t_tests", 55)
    /\ LeveneCell("t_tests", 55, <<"group_0", "group_1">>)

T_Cell59 ==
    /\ At("t_tests", 59)
    /\ WelchCell(59, "group_2", "group_1")

\* t_crit_low = t.ppf(alpha / 2, df); t_crit_high = t.ppf(1 - alpha / 2, df)
TwoSidedCritical(d) ==
    LET low == TPpf(FDiv(Alpha, I(2)), d)
        high == TPpf(FSub(I(1), FDiv(Alpha, I(2))), d)
    IN  [alpha |-> Alpha, t_crit_low |-> low, t_crit_high |-> high,
         x_fill_left |-> Linspace(I(-4), low, 100),
         x_fill_right |-> Linspace(high, I(4), 100)]

T_Cell61 ==
    /\ At("t_tests", 61)
    /\ TPlot(61, Linspace(I(-5), I(5), 1000), TwoSidedCritical(V("df")))

\* t_stat * r for a positive rational r
Times(tt, r) ==
    IF tt.k = "quot_sqrt" THEN [tt EXCEPT !.num = FMul(@, r)] ELSE FMul(tt, r)

\* x_min = t_stat * 0.99; x_max = t_stat * 1.01
ZoomBounds(tt) == [x_min |-> Times(tt, R(99, 100)), x_max |-> Times(tt, R(101, 100))]

T_Cell63 ==
    /\ At("t_tests", 63)
    /\ TPlot(63, Linspace(ZoomBounds(V("t_stat")).x_min, ZoomBounds(V("t_stat")).x_max,
                          500),
             ZoomBounds(V("t_stat")))

InitT ==
    /\ nb = "t_tests"
    /\ pc = 0
    /\ status = "ok"
    /\ ns = <<>>
    /\ calls = <<>>

NextT ==
    \/ T_Cell0 \/ T_Cell3 \/ T_Cell5 \/ T_Cell7 \/ T_Cell10 \/ T_Cell14
    \/ T_Cell19 \/ T_Cell23 \/ T_Cell26 \/ T_Cell31 \/ T_Cell33 \/ T_Cell35
    \/ T_Cell38 \/ T_Cell41 \/ T_Cell44 \/ T_Cell48 \/ T_Cell52 \/ T_Cell55
    \/ T_Cell59 \/ T_Cell61 \/ T_Cell63

SpecT == InitT /\ [][NextT]_vars

(***************************************************************************)
(* Q-Q plots notebook. A sample is kept as the name of its distribution    *)
(* and its size. Cell 7 stops a run from top to bottom, which reaches no   *)
(* later cell.                                                             *)
(***************************************************************************)
QQ_Cell0 ==
    /\ At("qq_plots", 0)
    /\ Cell("qq_plots", 0, {},
            [plt |-> Module, stats |-> Module, probplot |-> Module, np |-> Module],
            <<>>)

QQ_Cell1 ==
    /\ At("qq_plots", 1)
    /\ Cell("qq_plots", 1, {"np"}, [n_samples |-> 1000], <<>>)

QQ_Cell3 ==
    /\ At("qq_plots", 3)
    /\ Cell("qq_plots", 3, {"np", "n_samples"},
            [data_normal |-> [sample |-> "normal", size |-> V("n_samples")]], <<>>)

QQ_Cell5 ==
    /\ At("qq_plots", 5)
    /\ Cell("qq_plots", 5, {"plt", "probplot", "data_normal"},
            ("fig" :> "figure") @@ ("ax" :> "axes") @@ ("_" :> "probplot"), <<>>)

\* the statements before norm.pdf(x) have bound their names when it is read
QQ_Cell7 ==
    /\ At("qq_plots", 7)
    /\ IF ~Bound({"np", "n_samples", "plt", "probplot"}) THEN Raise("NameError")
       ELSE IF Bound({"norm", "uniform"})
       THEN Finish([data_uniform |-> [sample |-> "uniform", size |-> V("n_samples")],
                    fig |-> "figure", axs |-> "axes",
                    x |-> Linspace(I(-3), I(3), 500)], <<>>)
       ELSE /\ ns' = BindAll([data_uniform |-> [sample |-> "uniform",
                                                size |-> V("n_samples")],
                              fig |-> "figure", axs |-> "axes",
                              x |-> Linspace(I(-3), I(3), 500)])
            /\ status' = "NameError"
            /\ UNCHANGED <<nb, pc, calls>>

InitQQ ==
    /\ nb = "qq_plots"
    /\ pc = 0
    /\ status = "ok"
    /\ ns = <<>>
    /\ calls = <<>>

NextQQ == QQ_Cell0 \/ QQ_Cell1 \/ QQ_Cell3 \/ QQ_Cell5 \/ QQ_Cell7

\* the four notebooks, each run top to bottom in a fresh kernel
SpecNotebooks ==
    /\ InitChi \/ InitAnova \/ InitT \/ InitQQ
    /\ [][NextChi \/ NextAnova \/ NextT \/ NextQQ]_vars

(***************************************************************************)
(* Properties of the chi-squared tests (checked under SpecChi).            *)
(***************************************************************************)
\* chi2_stat, df and expected are those of the contingency test on the
\* table that contingency names now
SameTest ==
    /\ nb = "chi_squared"
    /\ Bound({"contingency", "chi2_stat", "df", "expected"})
    /\ \/ ns["contingency"].cell = 10 /\ ns["chi2_stat"].cell = 13
       \/ ns["contingency"].cell = 50 /\ ns["chi2_stat"].cell = 51
    /\ ns["expected"].cell = ns["chi2_stat"].cell
    /\ ns["df"].cell = ns["chi2_stat"].cell

Table == V("contingency").m

AtLeast2x2(m) == Shape(m)[1] >= 2 /\ Shape(m)[2] >= 2

Cells(m) == {<<i, j>> : i \in 1..Shape(m)[1], j \in 1..Shape(m)[2]}

\* r_i * c_j / N, from the margins of the observed table
MarginProduct(m, i, j) == R(RowTotal(m, i) * ColTotal(m, j), GrandTotal(m))

\* sum over all cells of (observed - expected)^2 / expected
PearsonSum(m) ==
    FSum(Flatten([i \in DOMAIN m |-> [j \in DOMAIN m[i] |->
        LET d == FSub(I(m[i][j]), MarginProduct(m, i, j))
        IN  FDiv(FMul(d, d), MarginProduct(m, i, j))]]))

\* the same sum with every |observed - expected| first reduced by
\* min(1/2, |observed - expected|)
CorrectedSum(m) ==
    FSum(Flatten([i \in DOMAIN m |-> [j \in DOMAIN m[i] |->
        LET a == FAbs(FSub(I(m[i][j]), MarginProduct(m, i, j)))
            d == FSub(a, FMin(R(1, 2), a))
        IN  FDiv(FMul(d, d), MarginProduct(m, i, j))]]))

\* C2 as stated: on every table of at least 2x2, 2x2 included, the statistic
\* is the plain sum of (observed - expected)^2 / expected.
C2_PlainSumOnEveryTable ==
    (SameTest /\ AtLeast2x2(Table)) => V("chi2_stat") = PearsonSum(Table)

\* C2 amended: the statistic is the plain sum of (observed - expected)^2 /
\* expected on tables larger than 2x2; on a 2x2 table every
\* |observed - expected| is first reduced by min(0.5, |observed - expected|).
C2_StatisticWithContinuityCorrection ==
    (SameTest /\ AtLeast2x2(Table)) =>
        V("chi2_stat") = IF Shape(Table) = <<2, 2>> THEN CorrectedSum(Table)
                         ELSE PearsonSum(Table)

C2_Witness ==
    /\ SameTest
    /\ Shape(Table)[1] >= 2 /\ Shape(Table)[2] >= 3
    /\ FLt(I(0), V("chi2_stat"))

\* C3: expected[i,j] = row_total[i] * col_total[j] / N; the expected table
\* has the row totals, column totals and grand total of the observed table,
\* and the differences observed - expected sum to 0.
C3_ExpectedPreservesMargins ==
    (SameTest /\ AtLeast2x2(Table)) =>
        LET e == V("expected")
            m == Table
        IN  /\ Shape(e) = Shape(m)
            /\ \A c \in Cells(m) : e[c[1]][c[2]] = MarginProduct(m, c[1], c[2])
            /\ \A i \in DOMAIN m : FSum(e[i]) = I(RowTotal(m, i))
            /\ \A j \in DOMAIN m[1] :
                 FSum([i \in DOMAIN m |-> e[i][j]]) = I(ColTotal(m, j))
            /\ FSum(Flatten(e)) = I(GrandTotal(m))
            /\ FSum(Flatten([i \in DOMAIN m |-> [j \in DOMAIN m[i] |->
                                FSub(I(m[i][j]), e[i][j])]])) = I(0)

C3_Witness ==
    /\ SameTest /\ AtLeast2x2(Table)
    /\ \E c \in Cells(Table) : V("expected")[c[1]][c[2]].d > 1

\* C4: df is (R-1)(C-1) after a contingency test and categories - 1 in the
\* goodness-of-fit test, and each chi-squared distribution plot is drawn
\* with the df bound by its own section's contingency test.
PlotSection(c) == IF c = 20 THEN 13 ELSE 51

C4_DegreesOfFreedom ==
    /\ SameTest =>
          V("df") = (Shape(Table)[1] - 1) * (Shape(Table)[2] - 1)
    /\ \A k \in DOMAIN calls :
          /\ calls[k].fn = "chisquare" =>
                calls[k].dof = <<Len(calls[k].args[1].val) - 1>>
          /\ calls[k].fn = "chi2.pdf" =>
                /\ calls[k].args[1].cell = PlotSection(calls[k].cell)
                /\ calls[k].dof = <<calls[k].args[1].val>>
                /\ \E t \in 1..(k - 1) :
                      /\ calls[t].fn = "chi2_contingency"
                      /\ calls[t].cell = PlotSection(calls[k].cell)
                      /\ calls[t].dof = calls[k].dof

C4_Witness ==
    /\ SameTest /\ V("df") = 2
    /\ \E k \in DOMAIN calls :
          calls[k].fn = "chi2.pdf" /\ calls[k].cell = 58 /\ calls[k].dof = <<2>>
    /\ \E k \in DOMAIN calls : calls[k].fn = "chisquare" /\ calls[k].dof = <<1>>

\* C5: the independence statistic is never negative, and it is 0 when every
\* observed count equals its expected count.
ObservedIsExpected ==
    \A c \in Cells(Table) : I(Table[c[1]][c[2]]) = V("expected")[c[1]][c[2]]

C5_StatisticNonNegative ==
    (SameTest /\ AtLeast2x2(Table)) =>
        /\ IsFin(V("chi2_stat")) /\ ~FLt(V("chi2_stat"), I(0))
        /\ ObservedIsExpected => V("chi2_stat") = I(0)

C5_Witness == SameTest /\ AtLeast2x2(Table) /\ ObservedIsExpected

(***************************************************************************)
(* Properties of the goodness-of-fit test (checked under SpecChi).         *)
(***************************************************************************)
\* observed and expected are the arrays built by cell 33
GofInput ==
    /\ nb = "chi_squared"
    /\ Bound({"observed", "expected", "expected_dist"})
    /\ ns["observed"].cell = 33 /\ ns["expected"].cell = 33
    /\ Len(V("observed")) = Len(V("expected_dist"))
    /\ Len(V("observed")) >= 2

\* chi2_stat and p_chi are those of the goodness-of-fit test of cell 38
GofDone == GofInput /\ ns["chi2_stat"].cell = 38 /\ ns["p_chi"].cell = 38

\* sum of (observed[i] - p[i] * N)^2 / (p[i] * N)
GofSum(obs, dist) ==
    LET N == ISum(obs)
    IN  FSum([i \in DOMAIN obs |->
            R((obs[i] * dist[i].d - dist[i].n * N) * (obs[i] * dist[i].d - dist[i].n * N),
              dist[i].d * dist[i].n * N)])

\* C6: the expected counts are expected_proportions[i] * sum(observed), they
\* sum to the observed total, and the statistic is the sum of
\* (observed[i] - expected[i])^2 / expected[i].
C6_GoodnessOfFit ==
    /\ GofInput =>
          /\ \A i \in DOMAIN V("expected") :
                V("expected")[i] = R(V("expected_dist")[i].n * ISum(V("observed")),
                                     V("expected_dist")[i].d)
          /\ FSum(V("expected")) = I(ISum(V("observed")))
    /\ GofDone =>
          V("chi2_stat") = GofSum(V("observed"), V("expected_dist"))

C6_Witness == GofDone /\ FLt(I(0), V("chi2_stat"))

\* x rounded to the given number of decimals, as an integer count of the
\* last decimal place
RoundTo(x, decimals) ==
    LET scale == IF decimals = 3 THEN 1000 ELSE 10000
        whole == x.n \div x.d
        frac  == (x.n % x.d) * scale
    IN  whole * scale + frac \div x.d + (IF 2 * (frac % x.d) >= x.d THEN 1 ELSE 0)

\* C7: observed counts [725, 193] against proportions [0.5, 0.5] give expected
\* counts [459, 459], the statistic 2 * 266^2 / 459, which rounds to 308.305
\* (printed as 308.3050), and 1 degree of freedom.
C7_ReportedSexCounts ==
    (GofInput /\ V("observed") = <<725, 193>>) =>
        /\ V("expected") = <<I(459), I(459)>>
        /\ GofDone =>
              /\ V("chi2_stat") = R(2 * 266 * 266, 459)
              /\ RoundTo(V("chi2_stat"), 3) = 308305
              /\ RoundTo(V("chi2_stat"), 4) = 3083050
              /\ V("p_chi").dof = <<1>>

C7_Witness == GofDone /\ V("observed") = <<725, 193>>

(***************************************************************************)
(* Properties of the analysis of variance (checked under SpecAnova).       *)
(***************************************************************************)
\* f_stat is the statistic cell 25 computed on the groups bound now
AnovaDone ==
    /\ nb = "anova"
    /\ Bound({"group_0", "group_1", "group_2", "f_stat"})
    /\ ns["f_stat"].cell = 25

Groups == <<V("group_0"), V("group_1"), V("group_2")>>

TotalLen(gs) == ISum([g \in DOMAIN gs |-> Len(gs[g])])

Sq(x) == FMul(x, x)

GrandMean(gs) == Mean(Floats(Concat(gs)))

\* sum over groups of n_g * (mean_g - grand_mean)^2
SSBetween(gs) ==
    FSum([g \in DOMAIN gs |->
            FMul(I(Len(gs[g])), Sq(FSub(Mean(Floats(gs[g])), GrandMean(gs))))])

\* sum over groups of the squared deviations from the group mean
SSWithin(gs) ==
    FSum([g \in DOMAIN gs |->
            FSum([i \in DOMAIN gs[g] |->
                    Sq(FSub(I(gs[g][i]), Mean(Floats(gs[g]))))])])

FRatio(gs) ==
    FDiv(FDiv(SSBetween(gs), I(Len(gs) - 1)),
         FDiv(SSWithin(gs), I(TotalLen(gs) - Len(gs))))

NonEmptyGroups(gs) == \A g \in DOMAIN gs : Len(gs[g]) > 0

\* C8: for non-empty groups with N > k, the statistic of f_oneway is
\* (SS_between / (k-1)) / (SS_within / (N-k)), the division being that of
\* floats (x/0 is infinite, 0/0 is not a number).
C8_FStatistic ==
    (AnovaDone /\ NonEmptyGroups(Groups) /\ TotalLen(Groups) > Len(Groups)) =>
        V("f_stat") = FRatio(Groups)

C8_Witness ==
    /\ AnovaDone /\ NonEmptyGroups(Groups)
    /\ IsFin(V("f_stat")) /\ FLt(I(0), V("f_stat"))
    /\ SSWithin(Groups) # I(0)

\* the number of times v occurs in xs
Occurrences(xs, v) == Cardinality({i \in DOMAIN xs : xs[i] = v})

\* the call of f_oneway the run has made
AnovaCall == CHOOSE c \in Range(calls) : c.fn = "f_oneway"

\* C9: the degrees of freedom cell 28 draws the F distribution with are
\* k - 1 and N - k, for the k groups passed to f_oneway and the N
\* observations in them, they are the ones of the test itself, and the three
\* groups partition the rows of df.
C9_DegreesOfFreedom ==
    (nb = "anova" /\ Bound({"df_between", "df_within", "f_crit"})) =>
        LET gs == [g \in DOMAIN AnovaCall.args |-> AnovaCall.args[g].val]
            rows == V("df").rows
        IN  /\ V("df_between") = Len(gs) - 1
            /\ V("df_within") = TotalLen(gs) - Len(gs)
            /\ AnovaCall.dof = <<V("df_between"), V("df_within")>>
            /\ V("f_crit").dof = AnovaCall.dof
            /\ gs = Groups
            /\ TotalLen(gs) = Len(rows)
            /\ \A v \in 0..MaxVal :
                  Occurrences([i \in DOMAIN rows |-> rows[i][2]], v)
                     = ISum([g \in DOMAIN gs |-> Occurrences(gs[g], v)])

C9_Witness ==
    /\ nb = "anova" /\ Bound({"df_between", "df_within", "f_crit"})
    /\ NonEmptyGroups(Groups)
    /\ V("df_within") >= 1
    /\ IsFin(V("f_stat"))

(***************************************************************************)
(* Properties of Levene's test (checked under SpecLevene).                 *)
(***************************************************************************)
SpecLevene == (InitAnova \/ InitT) /\ [][NextAnova \/ NextT]_vars

\* each observation replaced by its absolute deviation from the median of
\* its own group
AbsDevFromMedian(xs) ==
    LET med == Median(xs)
    IN  [i \in DOMAIN xs |-> FAbs(FSub(I(xs[i]), med))] \o <<>>

\* one-way analysis of variance of the transformed groups of a call
AnovaOfDeviations(call) ==
    f_oneway([g \in DOMAIN call.args |-> AbsDevFromMedian(call.args[g].val)])

\* levene has just been called: its call is the last the run has made
LeveneDone ==
    /\ calls # <<>>
    /\ calls[Len(calls)].fn = "levene"
    /\ ns["levene_stat"].cell = calls[Len(calls)].cell

LeveneCall == calls[Len(calls)]

\* C10: the statistic and the degrees of freedom of every call of levene are
\* those of f_oneway on the groups' absolute deviations from their medians.
C10_LeveneIsAnovaOfDeviations ==
    LeveneDone =>
        /\ V("levene_stat") = AnovaOfDeviations(LeveneCall).statistic
        /\ LeveneCall.dof = AnovaOfDeviations(LeveneCall).dof

C10_Witness ==
    /\ LeveneDone /\ Len(LeveneCall.args) = 2
    /\ IsFin(V("levene_stat")) /\ FLt(I(0), V("levene_stat"))

(***************************************************************************)
(* Properties of the t-tests (checked under SpecT).                        *)
(***************************************************************************)
\* C1: the Welch test of cell 59 is computed on group_0 and group_1 as cell 44
\* bound them, and on no value bound before the breast-cancer section.
C1_WelchOnCancerGroups ==
    \A k \in DOMAIN calls :
        (calls[k].fn = "ttest_ind" /\ calls[k].cell = 59) =>
            /\ Range(calls[k].args) = {ns["group_0"], ns["group_1"]}
            /\ \A a \in DOMAIN calls[k].args : calls[k].args[a].cell = 44

\* the call of ttest_ind whose result is still bound, if any
WelchDone(k) ==
    /\ calls[k].fn = "ttest_ind"
    /\ "result" \in DOMAIN ns
    /\ ns["result"].cell = calls[k].cell

\* sum of squared deviations from the mean over n - 1
SampleVariance(xs) ==
    LET m == FDiv(I(ISum(xs)), I(Len(xs)))
    IN  FDiv(FSum([i \in DOMAIN xs |-> Sq(FSub(I(xs[i]), m))]), I(Len(xs) - 1))

\* var / n of a sample
VarOverN(xs) == FDiv(SampleVariance(xs), I(Len(xs)))

\* the Welch-Satterthwaite degrees of freedom of two samples
Satterthwaite(a, b) ==
    FDiv(Sq(FAdd(VarOverN(a), VarOverN(b))),
         FAdd(FDiv(Sq(VarOverN(a)), I(Len(a) - 1)),
              FDiv(Sq(VarOverN(b)), I(Len(b) - 1))))

\* both samples have two observations or more and the standard error of the
\* difference of their means is positive
WelchDefined(a, b) ==
    /\ Len(a) >= 2 /\ Len(b) >= 2
    /\ FLt(I(0), FAdd(VarOverN(a), VarOverN(b)))

\* -t of a statistic whose square root is kept symbolic
TNeg(tt) ==
    IF tt.k = "quot_sqrt" THEN [tt EXCEPT !.num = FNeg(@), !.n = -@]
    ELSE FNeg(tt)

\* C11: for samples a (first argument) and b on which Welch's test is defined,
\* t is (mean_a - mean_b) over the square root of var_a/n_a + var_b/n_b, the
\* degrees of freedom are the Welch-Satterthwaite value, the two-tailed
\* p-value is twice the upper tail area of t(df) beyond |t|, and the test of
\* (b, a) has the statistic -t and the same degrees of freedom and p-value.
C11_WelchStatistic ==
    \A k \in DOMAIN calls :
        (WelchDone(k) /\ WelchDefined(calls[k].args[1].val, calls[k].args[2].val)) =>
            LET a == calls[k].args[1].val
                b == calls[k].args[2].val
                res == V("result")
                swapped == ttest_ind(b, a)
            IN  /\ res.statistic.k = "quot_sqrt"
                /\ res.statistic.num = FSub(FDiv(I(ISum(a)), I(Len(a))),
                                            FDiv(I(ISum(b)), I(Len(b))))
                /\ res.statistic.rad = FAdd(VarOverN(a), VarOverN(b))
                /\ res.df = Satterthwaite(a, b)
                /\ res.pvalue = [dist |-> "t", fn |-> "two_sided",
                                 x |-> TAbs(res.statistic), dof |-> <<res.df>>]
                /\ swapped.statistic = TNeg(res.statistic)
                /\ swapped.df = res.df
                /\ swapped.pvalue = res.pvalue

\* cell 31 has made a test with a negative statistic on samples of unequal
\* variance
C11_Witness ==
    \E k \in DOMAIN calls :
        /\ WelchDone(k) /\ calls[k].cell = 31
        /\ WelchDefined(calls[k].args[1].val, calls[k].args[2].val)
        /\ VarOverN(calls[k].args[1].val) # VarOverN(calls[k].args[2].val)
        /\ V("t_stat").n < 0

\* cell 33 has derived the one-tailed p-value from the test of cell 31
OneTailedDone ==
    /\ Bound({"p_one_tailed", "p_two_tailed", "t_stat", "result"})
    /\ ns["p_one_tailed"].cell = 33
    /\ ns["t_stat"].cell = 31 /\ ns["result"].cell = 31

\* CDF_t(x, df), kept symbolic
Cdf(x, dofs) == [dist |-> "t", fn |-> "cdf", x |-> x, dof |-> dofs]

\* the tail area a one-tailed value stands for, as a value of the CDF: with
\* p = 2 * (1 - CDF_t(a, df)), p / 2 is CDF_t(-a, df) by the symmetry of the
\* distribution and 1 - p / 2 is CDF_t(a, df)
TailArea(p) ==
    IF p = NaN THEN NaN
    ELSE IF DOMAIN p = {"op", "of"} /\ p.of # NaN /\ p.of.fn = "two_sided"
    THEN IF p.op = "half" THEN Cdf(TNeg(p.of.x), p.of.dof)
         ELSE IF p.op = "one_minus_half" THEN Cdf(p.of.x, p.of.dof)
         ELSE p
    ELSE p

SpecPValues ==
    /\ InitChi \/ InitT
    /\ [][\/ NextChi
          \/ T_Cell0 \/ T_Cell3 \/ T_Cell5 \/ T_Cell7 \/ T_Cell10 \/ T_Cell14
          \/ T_Cell19 \/ T_Cell23 \/ T_Cell26 \/ T_Cell31 \/ T_Cell33
          \/ T_Cell35 \/ T_Cell38]_vars

\* an interval [lo, hi] that holds the number a symbolic p-value stands for:
\* an upper tail area is in [0, 1]; that of a chi-squared or F distribution
\* is 1 at 0 and 0 at infinity; that of t is in [0, 1/2] right of 0, 1/2 at 0
\* and in [1/2, 1] left of 0
TailRange(p) ==
    IF p.dist = "t"
    THEN IF p.x.n > 0 THEN <<I(0), Half>>
         ELSE IF p.x.n = 0 THEN <<Half, Half>>
         ELSE <<Half, I(1)>>
    ELSE IF p.x.k = "inf" THEN <<I(0), I(0)>>
    ELSE IF p.x.n <= 0 THEN <<I(1), I(1)>>
    ELSE <<I(0), I(1)>>

Twice(r) == <<FMul(I(2), r[1]), FMul(I(2), r[2])>>

Halved(r) == <<FMul(Half, r[1]), FMul(Half, r[2])>>

OneMinus(r) == <<FSub(I(1), r[2]), FSub(I(1), r[1])>>

BaseRange(p) ==
    IF "k" \in DOMAIN p THEN <<p, p>>
    ELSE IF p.fn = "two_sided" THEN Twice(TailRange(p))
    ELSE TailRange(p)

PRange(p) ==
    IF "op" \in DOMAIN p
    THEN IF p.op = "half" THEN Halved(BaseRange(p.of))
         ELSE OneMinus(Halved(BaseRange(p.of)))
    ELSE BaseRange(p)

InUnitInterval(r) == ~FLt(r[1], I(0)) /\ ~FLt(I(1), r[2])

\* the names the notebooks bind to a p-value
PNames == {"p_chi", "p", "levene_p_stat", "p_two_tailed", "p_one_tailed"}

\* the sweep of cell 41 has just been made
SweepDone == status = "ok" /\ "p_values" \in DOMAIN ns /\ pc = SuccIn(ChiCells, 41)

\* C13: every p-value a test produces on valid input (one that is not NaN)
\* is in [0, 1]: the two-tailed p-value, the one-tailed p-value on both
\* branches, the p-values of the chi-squared tests and of the sweep; and a
\* chi-squared statistic of 0 has the p-value 1.
C13_PValuesInUnitInterval ==
    /\ \A name \in PNames \cap DOMAIN ns :
          V(name) # NaN => InUnitInterval(PRange(V(name)))
    /\ (Bound({"chi2_stat", "p_chi"}) /\ V("chi2_stat") = I(0)
            /\ ns["p_chi"].cell = ns["chi2_stat"].cell) =>
          PRange(V("p_chi")) = <<I(1), I(1)>>
    /\ SweepDone =>
          \A i \in DOMAIN V("p_values") :
             /\ InUnitInterval(PRange(V("p_values")[i]))
             /\ V("chi_values")[i] = I(0) =>
                   PRange(V("p_values")[i]) = <<I(1), I(1)>>

\* the one-tailed p-value of a negative statistic has been derived from a
\* two-tailed p-value
C13_Witness ==
    /\ OneTailedDone /\ V("t_stat").k = "quot_sqrt" /\ V("t_stat").n < 0
    /\ PRange(V("p_two_tailed")) = <<I(0), I(1)>>
    /\ PRange(V("p_one_tailed")) = <<Half, I(1)>>

(***************************************************************************)
(* Properties of the standardized residuals (checked under SpecChi).       *)
(***************************************************************************)
\* residuals is bound by the residual cell of the section that bound the
\* contingency table and its expected frame
ResidualsDone ==
    /\ nb = "chi_squared"
    /\ Bound({"residuals", "contingency", "expected_contingency"})
    /\ \/ /\ ns["residuals"].cell = 24 /\ ns["expected_contingency"].cell = 22
          /\ ns["contingency"].cell = 10
       \/ /\ ns["residuals"].cell = 61 /\ ns["expected_contingency"].cell = 60
          /\ ns["contingency"].cell = 50

\* the test cell of the section of a residual cell
TestOf(c) == IF c = 24 THEN 13 ELSE 51

\* C14: the residual matrix has the shape and the row and column labels of the
\* contingency table, its cell (i,j) is (observed - expected) over the square
\* root of expected, and expected is the expected table that the test of the
\* same section computed from that contingency table.
C14_StandardizedResiduals ==
    ResidualsDone =>
        LET res == V("residuals")
            m == Table
        IN  /\ res.index = V("contingency").index
            /\ res.columns = V("contingency").columns
            /\ Shape(res.m) = Shape(m)
            /\ \A c \in Cells(m) :
                  /\ res.m[c[1]][c[2]].diff =
                        FSub(I(m[c[1]][c[2]]), MarginProduct(m, c[1], c[2]))
                  /\ res.m[c[1]][c[2]].root = MarginProduct(m, c[1], c[2])
            /\ \E k \in DOMAIN calls :
                  /\ calls[k].fn = "chi2_contingency"
                  /\ calls[k].cell = TestOf(ns["residuals"].cell)
                  /\ calls[k].args = <<ns["contingency"]>>

\* the residuals of a 2x3 table of the homogeneity section, one of them
\* negative
C14_Witness ==
    /\ ResidualsDone /\ ns["residuals"].cell = 61
    /\ Shape(Table) = <<2, 3>>
    /\ \E c \in Cells(Table) : V("residuals").m[c[1]][c[2]].diff.n < 0

\* the largest s in lo..hi with s * s <= k, for lo * lo <= k < (hi + 1)^2
RECURSIVE FloorSqrtIn(_, _, _)
FloorSqrtIn(k, lo, hi) ==
    IF lo = hi THEN lo
    ELSE LET mid == (lo + hi + 1) \div 2
         IN  IF mid * mid <= k THEN FloorSqrtIn(k, mid, hi)
             ELSE FloorSqrtIn(k, lo, mid - 1)

\* rationals <<lo, hi>> with lo <= sqrt(k) <= hi and hi - lo <= 1/1000
SqrtRange(k) ==
    LET s == FloorSqrtIn(k * 1000000, 0, 46000)
    IN  IF s * s = k * 1000000 THEN <<R(s, 1000), R(s, 1000)>>
        ELSE <<R(s, 1000), R(s + 1, 1000)>>

\* an interval that holds diff / sqrt(root) = (diff / n) * sqrt(n * d) for
\* root = n / d
ResidualRange(r) ==
    LET coef == FDiv(r.diff, I(r.root.n))
        sq == SqrtRange(r.root.n * r.root.d)
    IN  IF coef.n >= 0 THEN <<FMul(coef, sq[1]), FMul(coef, sq[2])>>
        ELSE <<FMul(coef, sq[2]), FMul(coef, sq[1])>>

\* an interval that holds the sum of the standardized residuals of a table
ResidualSumRange(res) ==
    LET rs == Flatten([i \in DOMAIN res |-> [j \in DOMAIN res[i] |->
                         ResidualRange(res[i][j])]])
    IN  <<FSum([i \in DOMAIN rs |-> rs[i][1]]), FSum([i \in DOMAIN rs |-> rs[i][2]])>>

\* what approximately 0 allows
ResidualSumTolerance == R(1, 100)

\* C15 as stated: the standardized residuals of a table sum to 0 within the
\* tolerance (the interval that holds the sum is not wholly outside it).
C15_ResidualsSumToZero ==
    ResidualsDone =>
        LET sum == ResidualSumRange(V("residuals").m)
        IN  /\ ~FLt(ResidualSumTolerance, sum[1])
            /\ ~FLt(sum[2], FNeg(ResidualSumTolerance))

\* C15, amended: the differences observed - expected, which are the
\* standardized residuals each multiplied by the square root of its expected
\* count, sum to 0 over every row, every column and the whole table.
C15_DifferencesSumToZero ==
    ResidualsDone =>
        LET res == V("residuals").m
        IN  /\ \A i \in DOMAIN res :
                  FSum([j \in DOMAIN res[i] |-> res[i][j].diff]) = I(0)
            /\ \A j \in DOMAIN res[1] :
                  FSum([i \in DOMAIN res |-> res[i][j].diff]) = I(0)
            /\ FSum(Flatten([i \in DOMAIN res |-> [j \in DOMAIN res[i] |->
                                res[i][j].diff]])) = I(0)

\* the residuals of a table with two rows or more and two columns or more
\* whose sum is more than the tolerance above 0
C15_Witness ==
    /\ ResidualsDone /\ AtLeast2x2(Table)
    /\ FLt(ResidualSumTolerance, ResidualSumRange(V("residuals").m)[1])

(***************************************************************************)
(* Error handling of the chi-squared tests (checked under SpecChi).        *)
(***************************************************************************)
\* a table with a zero row or column total, or fewer than 2 rows or columns
Degenerate(m) ==
    \/ Shape(m)[1] < 2 \/ Shape(m)[2] < 2
    \/ \E i \in DOMAIN m : RowTotal(m, i) = 0
    \/ \E j \in DOMAIN m[1] : ColTotal(m, j) = 0

\* the contingency table of the independence section is bound and is the
\* one cell 13 tests
IndependenceInput ==
    /\ nb = "chi_squared"
    /\ Bound({"contingency"}) /\ ns["contingency"].cell = 10

\* C16: on a degenerate table the independence test of cell 13 stops the run
\* with an error and produces no statistic, p-value or expected table.
C16_DegenerateTableFails ==
    (IndependenceInput /\ Degenerate(Table)) =>
        /\ \A k \in DOMAIN calls : calls[k].cell # 13
        /\ \A name \in {"chi2_stat", "p_chi", "expected"} \cap DOMAIN ns :
              ns[name].cell # 13
        /\ pc <= 13

(***************************************************************************)
(* Error handling of the t-tests (checked under SpecT).                    *)
(***************************************************************************)
\* NaN or an infinity
NotFinite(v) == "k" \in DOMAIN v /\ v.k \in {"nan", "inf"}

\* C18: no NaN or infinite statistic, degrees of freedom or p-value of a
\* two-sample test is used by a later step, the one-tailed branch of cell 33
\* or a density plot (stated for tests whose groups each hold an observation:
\* a group of one, or groups without variance, are the edge cases).
C18_NoDegenerateResultUsed ==
    \A k \in DOMAIN calls :
        (/\ WelchDone(k)
         /\ calls[k].args[1].val # <<>> /\ calls[k].args[2].val # <<>>
         /\ \/ OneTailedDone
            \/ \E j \in DOMAIN calls : j > k /\ calls[j].fn = "t.pdf") =>
            /\ ~NotFinite(V("result").statistic)
            /\ ~NotFinite(V("result").pvalue)
            /\ ~NotFinite(V("result").df)

(***************************************************************************)
(* Independence of the test computations.                                  *)
(***************************************************************************)
\* the names and the binding cell of the two groups of the section of a
\* two-sample test
OwnGroups(c) ==
    IF c = 31 THEN [names |-> <<"group_1", "group_2">>, cell |-> 14]
    ELSE [names |-> <<"group_0", "group_1">>, cell |-> 44]

\* C19 (checked under SpecT): the result of a two-sample test is that of the
\* test on the data of its own section, whatever an earlier section left in
\* the kernel: it is the Welch test of the two groups of that data, in one
\* order or the other (stated for data on which the test is defined and a
\* result with a finite statistic).
C19_ResultFromOwnData ==
    \A k \in DOMAIN calls :
        LET own == OwnGroups(calls[k].cell)
        IN  (/\ WelchDone(k)
             /\ Bound(Range(own.names))
             /\ \A i \in DOMAIN own.names : ns[own.names[i]].cell = own.cell
             /\ WelchDefined(V(own.names[1]), V(own.names[2]))
             /\ V("result").statistic.k = "quot_sqrt") =>
                V("result") \in {ttest_ind(V(own.names[1]), V(own.names[2])),
                                 ttest_ind(V(own.names[2]), V(own.names[1]))}

\* the section of the chi-squared notebook a code cell belongs to: 0 for the
\* imports and the data, then independence, goodness of fit, homogeneity
ChiSection(c) == IF c < 8 THEN 0 ELSE IF c <= 25 THEN 1 ELSE IF c <= 41 THEN 2 ELSE 3

\* C20 (checked under SpecChi): each computation reads only its own inputs:
\* every value a cell passes to a test or to an assumption check was bound by
\* a cell of its own section, or by the imports and the data load.
C20_ReadsOnlyOwnInputs ==
    nb = "chi_squared" =>
        \A k \in DOMAIN calls : \A a \in DOMAIN calls[k].args :
            ChiSection(calls[k].args[a].cell) \in {0, ChiSection(calls[k].cell)}

(***************************************************************************)
(* The one-tailed decision and its plot (checked under SpecT).             *)
(***************************************************************************)
\* cell 38 has drawn the rejection region of the test of cells 31 and 33
RegionDrawn ==
    /\ OneTailedDone /\ Bound({"t_crit", "alpha"})
    /\ ns["t_crit"].cell = 38
    /\ WelchDefined(V("group_2"), V("group_1"))
    /\ V("result").df.k = "fin" /\ ~FLt(V("result").df, I(1))

\* an interval that holds t.ppf(0.05, df) for df >= 1: the 5% quantile of the
\* t distribution rises with df from -6.3138 at df = 1 towards -1.6449
LowerCriticalRange == <<R(-6314, 1000), R(-1644, 1000)>>

\* statistics a test may observe
TStatistics == {I(x) : x \in -7 .. 7}

\* x is surely in the shaded region, left of t_crit; surely outside it
SurelyShaded(x) == FLt(x, LowerCriticalRange[1])

SurelyUnshaded(x) == FLt(LowerCriticalRange[2], x)

\* the one-tailed p-value cells 31 and 33 give a statistic x
OneTailedOf(x, dfw) == OneTailedP(x, TwoSidedP(x, dfw))

\* C21: for every t statistic the decision read from the plot of cell 38
\* agrees with that of the one-tailed p-value at alpha = 0.05: no statistic
\* is in the shaded region with a p-value of alpha or more, or outside it
\* with a p-value below alpha.
C21_PlotAgreesWithPValue ==
    (RegionDrawn /\ V("t_crit") = TPpf(Alpha, V("result").df)) =>
        \A x \in TStatistics :
            LET p == PRange(OneTailedOf(x, V("result").df))
            IN  /\ ~(SurelyShaded(x) /\ ~FLt(p[1], V("alpha")))
                /\ ~(SurelyUnshaded(x) /\ FLt(p[2], V("alpha")))

(***************************************************************************)
(* The expected-frequency checks (checked under SpecChi).                  *)
(***************************************************************************)
\* cell 35 has checked the expected counts that cell 33 built, after an
\* independence test of a table of at least 2 x 2
GofCheckDone ==
    /\ nb = "chi_squared"
    /\ Bound({"expected", "all_gt_one", "num_lt_5", "perc_lt_5"})
    /\ ns["perc_lt_5"].cell = 35 /\ ns["expected"].cell = 33
    /\ Bound({"frequencies"}) /\ Len(V("frequencies")) >= 4

\* C22: the goodness-of-fit assumption check is computed from the expected
\* counts of the goodness-of-fit section: all_gt_one, the number and the
\* percentage of counts below 5 are those of the expected array of cell 33.
C22_CheckOfOwnExpected ==
    GofCheckDone =>
        /\ V("all_gt_one") = AllGtOne(V("expected"))
        /\ V("num_lt_5") = NumLt5(V("expected"))
        /\ V("perc_lt_5") = PercLt5(V("expected"))

\* cell 15 or cell 53 has checked the expected table of its own test, a table
\* of at least 2 x 2
FrequencyCheckDone ==
    /\ nb = "chi_squared" /\ Bound({"frequencies", "all_gt_one"})
    /\ ns["all_gt_one"].cell \in {15, 53}
    /\ ns["frequencies"].cell = ns["all_gt_one"].cell
    /\ Len(V("frequencies")) >= 4

\* C23: the check reports the first assumption as satisfied exactly when all
\* expected counts are at least 1, also when some count is exactly 1.
C23_AllAtLeastOne ==
    FrequencyCheckDone =>
        (V("all_gt_one") <=>
            \A i \in DOMAIN V("frequencies") : ~FLt(V("frequencies")[i], I(1)))

(***************************************************************************)
(* The goodness-of-fit sweep (checked under SpecChi).                      *)
(***************************************************************************)
\* C24: in the sweep with n = 1000, n_males takes the values 1 .. 500 in
\* increasing order; n_females is never 0, so every ratio is defined and in
\* (0, 1]; the statistic is (n_males - 500)^2 / 250 and strictly decreases
\* at every step; at the last step the ratio is 1, the statistic 0 and the
\* p-value 1.
C24_SweepValues ==
    SweepDone =>
        LET ms == V("proportions")
            last == Len(ms)
        IN  /\ last = 500 /\ \A i \in 1 .. last : ms[i] = i
            /\ DOMAIN V("ratio_mf") = 1 .. last
            /\ DOMAIN V("chi_values") = 1 .. last
            /\ DOMAIN V("p_values") = 1 .. last
            /\ \A i \in 1 .. last :
                  /\ V("n") - ms[i] # 0
                  /\ IsFin(V("ratio_mf")[i])
                  /\ V("ratio_mf")[i] = R(ms[i], V("n") - ms[i])
                  /\ FLt(I(0), V("ratio_mf")[i])
                  /\ ~FLt(I(1), V("ratio_mf")[i])
                  /\ V("chi_values")[i] = R((ms[i] - 500) * (ms[i] - 500), 250)
            /\ \A i \in 1 .. (last - 1) :
                  FLt(V("chi_values")[i + 1], V("chi_values")[i])
            /\ V("ratio_mf")[last] = I(1)
            /\ V("chi_values")[last] = I(0)
            /\ PRange(V("p_values")[last]) = <<I(1), I(1)>>

\* the sweep has been made and its last test is the one left in stat and p
C24_Witness ==
    /\ SweepDone /\ V("n_males") = 500 /\ V("n_females") = 500
    /\ V("stat") = I(0) /\ Len(V("chi_values")) = 500

(***************************************************************************)
(* Names (checked under SpecNotebooks).                                    *)
(***************************************************************************)
\* C25: each of the four notebooks, run top to bottom in a fresh kernel,
\* executes every code cell to completion: no cell reads a name that no
\* import or assignment of the same or an earlier cell has bound.
C25_EveryNameBound == status # "NameError"

(***************************************************************************)
(* The one-tailed p-value as a function of t (checked under SpecT).        *)
(***************************************************************************)
\* C26: with p_two_tailed = 2 * (1 - CDF_t(|t|, df)) and a CDF symmetric
\* about 0, the branch of cell 33 gives the upper tail 1 - CDF_t(t, df) =
\* CDF_t(-t, df) for every statistic t: it is at most 1/2 right of 0 (below
\* it, the CDF being strictly increasing), 1/2 at 0 and at least 1/2 left of
\* 0, and it does not increase with t (its CDF argument -t does not).
C26_UpperTailForEveryT ==
    (OneTailedDone /\ pc = SuccIn(TTestCells, 33)) =>
        \A x \in TStatistics :
            LET p == OneTailedOf(x, V("result").df)
            IN  /\ TailArea(p) = Cdf(FNeg(x), <<V("result").df>>)
                /\ FLt(I(0), x) => (PRange(p) = <<I(0), Half>>
                                    /\ p = HalfOf(TwoSidedP(x, V("result").df)))
                /\ x = I(0) => PRange(p) = <<Half, Half>>
                /\ FLt(x, I(0)) => PRange(p) = <<Half, I(1)>>
                /\ \A y \in TStatistics :
                      FLt(x, y) =>
                          FLt(TailArea(OneTailedOf(y, V("result").df)).x,
                              TailArea(p).x)

\* the p / 2 branch has been taken on a finite positive statistic
C26_Witness ==
    /\ OneTailedDone
    /\ V("t_stat").k = "quot_sqrt" /\ V("t_stat").n > 0
    /\ V("p_one_tailed") = HalfOf(V("p_two_tailed"))
    /\ V("p_one_tailed") = OneTailedOf(V("t_stat"), V("result").df)

(***************************************************************************)
(* The shared name df of the t-tests notebook (checked under SpecT).       *)
(***************************************************************************)
\* the last test made before the call at position k of the log
LastTestBefore(k) ==
    {j \in 1 .. (k - 1) :
        /\ calls[j].fn = "ttest_ind"
        /\ \A i \in (j + 1) .. (k - 1) : calls[i].fn # "ttest_ind"}

\* C27: df holds a data frame at every cell that uses it as one (no such
\* cell fails on a number), and at every cell that passes it to the t
\* distribution it holds the number that the most recent test bound: the
\* Welch degrees of freedom of that test.
C27_DfFrameOrNumberAsUsed ==
    nb = "t_tests" =>
        /\ status \notin {"TypeError", "AttributeError"}
        /\ \A k \in DOMAIN calls :
              /\ calls[k].fn = "frame" => IsFrame(calls[k].args[1].val)
              /\ calls[k].fn = "t.pdf" =>
                    /\ ~IsFrame(calls[k].args[1].val)
                    /\ LastTestBefore(k) # {}
                    /\ \A j \in LastTestBefore(k) :
                          /\ calls[j].dof = <<calls[k].args[1].val>>
                          /\ calls[j].cell = calls[k].args[1].cell

\* the run has rebound df four times: frame, number, frame, number, and used
\* it each time
C27_Witness ==
    /\ nb = "t_tests" /\ status = "ok"
    /\ \E a, b, c, d \in DOMAIN calls :
          /\ a < b /\ b < c /\ c < d
          /\ calls[a].fn = "frame" /\ calls[a].args[1].cell = 5
          /\ calls[b].fn = "t.pdf" /\ calls[b].args[1].cell = 31
          /\ calls[c].fn = "frame" /\ calls[c].args[1].cell = 41
          /\ calls[d].fn = "t.pdf" /\ calls[d].args[1].cell = 59

(***************************************************************************)
(* The full dataset of the chi-squared notebook (checked under SpecChi).   *)
(***************************************************************************)
\* frame shows the columns cols of every row of the full dataset
ColumnsOfOriginal(frame, cols) ==
    frame.cols = cols /\ frame.rows = V("df_original").rows

\* frame holds the heart-disease rows of the full dataset and no other row
DiseasedOfOriginal(frame) ==
    /\ frame.cols = {"Sex", "ChestPainType", "HeartDisease"}
    /\ \A r \in DOMAIN frame.rows :
          frame.rows[r] = IF r.HeartDisease = 1 THEN V("df_original").rows[r] ELSE 0

\* every section's frame derives from the full dataset as it is now
SectionsOfOriginal ==
    /\ "df_original" \in DOMAIN ns => ns["df_original"].cell = 5
    /\ "df_independence" \in DOMAIN ns =>
          ColumnsOfOriginal(V("df_independence"), {"Sex", "HeartDisease"})
    /\ "df_fit" \in DOMAIN ns => ColumnsOfOriginal(V("df_fit"), {"Sex"})
    /\ "df_homogeneity" \in DOMAIN ns =>
          IF ns["df_homogeneity"].cell = 45
          THEN ColumnsOfOriginal(V("df_homogeneity"),
                                 {"Sex", "ChestPainType", "HeartDisease"})
          ELSE /\ DiseasedOfOriginal(V("df_homogeneity"))
               /\ Filter(V("df_homogeneity"), "HeartDisease", 1)
                    = V("df_homogeneity")

\* C28: df_original is bound once, by the loading cell, and no later cell
\* rebinds or modifies it, so the frame of every section derives from the same
\* full dataset; of the names bound before it, the filter of cell 47 changes
\* only df_homogeneity, and filtering its result again changes nothing.
C28_OriginalNeverChanges ==
    [][/\ ("df_original" \in DOMAIN ns /\ nb = "chi_squared") =>
             ns'["df_original"] = ns["df_original"]
       /\ (nb = "chi_squared" /\ pc = 47) =>
             \A name \in DOMAIN ns \ {"df_homogeneity"} : ns'[name] = ns[name]
       /\ nb = "chi_squared" => SectionsOfOriginal']_vars

\* the filter has been applied and has dropped a row of the full dataset
C28_Witness ==
    /\ nb = "chi_squared" /\ Bound({"df_original", "df_homogeneity", "df_fit"})
    /\ ns["df_homogeneity"].cell = 47
    /\ V("df_homogeneity").rows # V("df_original").rows
    /\ \E r \in DOMAIN V("df_homogeneity").rows : V("df_homogeneity").rows[r] > 0

(***************************************************************************)
(* The chi-squared distribution plots (checked under SpecChi).             *)
(***************************************************************************)
\* the interval that plot cell c shades and labels 'Rejection region': all of
\* x in cell 20, x_fill in cell 58
Shaded(c) == IF c = 20 THEN "x" ELSE "x_fill"

\* plot cell c has drawn the test of its own section, made on a table of at
\* least 2 x 2
ChiPlotDone(c) ==
    /\ SameTest /\ AtLeast2x2(Table)
    /\ ns["chi2_stat"].cell = PlotSection(c)
    /\ Bound({"p_chi", "alpha", Shaded(c)})
    /\ ns["p_chi"].cell = ns["chi2_stat"].cell
    /\ ns[Shaded(c)].cell = c /\ ns["alpha"].cell = c

\* the statistic s is surely in the interval: no lower than its left end and
\* no higher than its right end, which if it is a density is at least 0
SurelyInside(s, interval) ==
    /\ ~FLt(s, interval.lo)
    /\ IF "k" \in DOMAIN interval.hi THEN ~FLt(interval.hi, s) ELSE s = I(0)

\* C29: in both chi-squared distribution plots the shaded region is the
\* upper tail at alpha = 0.05, so the observed statistic lies in the shaded
\* region only when the p-value of the test is below alpha.
C29_ShadedIsUpperTail ==
    \A c \in {20, 58} :
        (ChiPlotDone(c) /\ SurelyInside(V("chi2_stat"), V(Shaded(c)))) =>
            FLt(PRange(V("p_chi"))[1], V("alpha"))

====
